---- MODULE Spec2Model ----
(***************************************************************************)
(* A state-machine model of the jameboy execution core: the address space  *)
(* with its OAM DMA engine (memory.rs), the CPU's fetch/decode/execute     *)
(* step with interrupt dispatch (cpu.rs, opcode.rs), the PPU dot step      *)
(* (ppu.rs) and the composite driver step (main.rs).                       *)
(*                                                                         *)
(* Representation choices:                                                 *)
(*  - The 64 KiB ram array and the 256 byte bootstrap_rom array are kept   *)
(*    as finite maps from the addresses that hold a non-zero byte to that  *)
(*    byte; every other address reads 0, as after Memory::init.            *)
(*  - u8 / u16 arithmetic is integer arithmetic reduced % 2^8 / % 2^16.    *)
(*    Where Rust's +, - can overflow, the result depends on the build      *)
(*    (overflow checks panic, otherwise the value wraps): overflow_checks  *)
(*    is fixed in the initial state and a step that overflows under it     *)
(*    sets panicked, after which the program runs no further step.         *)
(*  - op and hist are history variables: the last operation performed and  *)
(*    counters over the run.  No operation of the program reads them.      *)
(***************************************************************************)
EXTENDS Integers, Sequences, FiniteSets, TLC

VARIABLES memory, cpu, ppu, overflow_checks, panicked, op, hist

vars == <<memory, cpu, ppu, overflow_checks, panicked, op, hist>>

(***************************************************************************)
(* util.rs                                                                 *)
(***************************************************************************)
Byte == 0 .. 255

\* Bit k (0 or 1) of x.
BitOf(x, k) == (x \div (2 ^ k)) % 2

\* Bitwise and / or / xor of two bytes.
And8(x, y) ==
    BitOf(x, 0) * BitOf(y, 0) + 2 * BitOf(x, 1) * BitOf(y, 1)
    + 4 * BitOf(x, 2) * BitOf(y, 2) + 8 * BitOf(x, 3) * BitOf(y, 3)
    + 16 * BitOf(x, 4) * BitOf(y, 4) + 32 * BitOf(x, 5) * BitOf(y, 5)
    + 64 * BitOf(x, 6) * BitOf(y, 6) + 128 * BitOf(x, 7) * BitOf(y, 7)

Or8(x, y) == x + y - And8(x, y)

Xor8(x, y) == x + y - 2 * And8(x, y)

\* !x on a u8.
Not8(x) == 255 - x

u8_to_u16(msb, lsb) == msb * 256 + lsb

u16_to_u8(val) == <<val \div 256, val % 256>>

\* x & (1 << bit): the masked value (0 or 2^bit), not the bit shifted down.
bit(x, b) == And8(x, 2 ^ b)

set_bits(original, new, mask) == Or8(And8(original, Not8(mask)), And8(new, mask))

(***************************************************************************)
(* memory.rs                                                               *)
(***************************************************************************)
ADDRESS_DMA == \hFF46

ADDRESS_BOOT_DISABLE == \hFF50

\* A byte array kept as a finite map of its non-zero bytes.
ArrayGet(arr, i) == IF i \in DOMAIN arr THEN arr[i] ELSE 0

ArraySet(arr, i, v) ==
    IF v = 0
    THEN [x \in DOMAIN arr \ {i} |-> arr[x]]
    ELSE [x \in DOMAIN arr \cup {i} |-> IF x = i THEN v ELSE arr[x]]

EmptyArray == [x \in {} |-> 0]

DmaInactive == [tag |-> "Inactive"]

DmaActive(src_addr, cycles, last_transferred_byte) ==
    [tag |-> "Active", src_addr |-> src_addr, cycles |-> cycles,
     last_transferred_byte |-> last_transferred_byte]

IsDmaActive(m) == m.dma_state.tag = "Active"

Memory_init ==
    [bootstrap_rom |-> EmptyArray, dma_state |-> DmaInactive, ram |-> EmptyArray]

Memory_read(m, address) ==
    IF ArrayGet(m.ram, ADDRESS_BOOT_DISABLE) = 0 /\ address < 256
    THEN ArrayGet(m.bootstrap_rom, address)
    ELSE ArrayGet(m.ram, address)

\* Memory_step ending the transfer one byte early (0..=157).
Memory_step_short(m) ==
    IF IsDmaActive(m)
    THEN LET src_addr == m.dma_state.src_addr
             cycles == m.dma_state.cycles
             byte_to_transfer == ArrayGet(m.ram, src_addr + cycles)
         IN [m EXCEPT
               !.ram = ArraySet(m.ram, u8_to_u16(254, cycles), byte_to_transfer),
               !.dma_state = IF cycles <= 157
                             THEN DmaActive(src_addr, cycles + 1, byte_to_transfer)
                             ELSE DmaInactive]
    ELSE m

Memory_step(m) ==
    IF IsDmaActive(m)
    THEN LET src_addr == m.dma_state.src_addr
             cycles == m.dma_state.cycles
             dst_address == u8_to_u16(254, cycles)
             byte_to_transfer == ArrayGet(m.ram, src_addr + cycles)
         IN [m EXCEPT
               !.ram = ArraySet(m.ram, dst_address, byte_to_transfer),
               !.dma_state = IF cycles <= 158
                             THEN DmaActive(src_addr, cycles + 1, byte_to_transfer)
                             ELSE DmaInactive]
    ELSE m

\* Memory_write without the check that drops writes during a transfer.
Memory_write_unguarded(m, address, value) ==
    [m EXCEPT
       !.ram = ArraySet(m.ram, address, value),
       !.dma_state = IF address = ADDRESS_DMA
                     THEN DmaActive(u8_to_u16(value, 0), 0, 0)
                     ELSE m.dma_state]

Memory_write(m, address, value) ==
    IF IsDmaActive(m) /\ (address < \hFF80 \/ address > \hFFFE)
    THEN m
    ELSE [m EXCEPT
            !.ram = ArraySet(m.ram, address, value),
            !.dma_state = IF address = ADDRESS_DMA
                          THEN DmaActive(u8_to_u16(value, 0), 0, 0)
                          ELSE m.dma_state]

(***************************************************************************)
(* cpu.rs: the register file and the interrupt logic                       *)
(***************************************************************************)
None == <<>>

Some(v) == <<v>>

Cpu_init ==
    [a |-> 0, b |-> 0, c |-> 0, d |-> 0, e |-> 0, f |-> 0, h |-> 0, l |-> 0,
     pc |-> 0, sp |-> 0, ime |-> TRUE,
     steps_since_request_ime_enable |-> None, prefixed |-> FALSE]

\* u8 / u16 results of wrapping arithmetic.
W8(x) == x % 256

W16(x) == x % 65536

\* The execution context threaded through a CPU step: the Cpu, the Memory and
\* whether a checked +, - of the step has overflowed so far.
Ctx(c, m, o) == [cpu |-> c, memory |-> m, ovf |-> o]

ADDRESS_INTERRUPT_FLAG_REGISTER == \hFF0F

ADDRESS_INTERRUPT_ENABLE_REGISTER == \hFFFF

\* ADDRESS_VBLANK_INTERRUPT .. ADDRESS_JOYPAD_INTERRUPT, by source 0 .. 4.
InterruptVector(k) == <<\h40, \h48, \h50, \h58, \h60>>[k + 1]

Cpu_read_register(c, r) ==
    CASE r = "A" -> c.a [] r = "B" -> c.b [] r = "C" -> c.c [] r = "D" -> c.d
      [] r = "E" -> c.e [] r = "H" -> c.h [] r = "L" -> c.l

Cpu_read_register_wide(c, r) ==
    CASE r = "AF" -> u8_to_u16(c.a, c.f)
      [] r = "BC" -> u8_to_u16(c.b, c.c)
      [] r = "DE" -> u8_to_u16(c.d, c.e)
      [] r = "HL" -> u8_to_u16(c.h, c.l)
      [] r = "PC" -> c.pc
      [] r = "SP" -> c.sp

Cpu_write_register(c, r, value) ==
    CASE r = "A" -> [c EXCEPT !.a = value]
      [] r = "B" -> [c EXCEPT !.b = value]
      [] r = "C" -> [c EXCEPT !.c = value]
      [] r = "D" -> [c EXCEPT !.d = value]
      [] r = "E" -> [c EXCEPT !.e = value]
      [] r = "H" -> [c EXCEPT !.h = value]
      [] r = "L" -> [c EXCEPT !.l = value]

\* Cpu::write_register_wide with the mask on F left out.
Cpu_write_register_wide_unmasked(c, r, value) ==
    CASE r = "AF" -> [c EXCEPT !.a = u16_to_u8(value)[1], !.f = u16_to_u8(value)[2]]
      [] r = "BC" -> [c EXCEPT !.b = u16_to_u8(value)[1], !.c = u16_to_u8(value)[2]]
      [] r = "DE" -> [c EXCEPT !.d = u16_to_u8(value)[1], !.e = u16_to_u8(value)[2]]
      [] r = "HL" -> [c EXCEPT !.h = u16_to_u8(value)[1], !.l = u16_to_u8(value)[2]]
      [] r = "PC" -> [c EXCEPT !.pc = value]
      [] r = "SP" -> [c EXCEPT !.sp = value]

\* write_register_wide storing the two bytes in the other order.
Cpu_write_register_wide_swapped(c, r, value) ==
    CASE r = "AF" -> [c EXCEPT !.a = u16_to_u8(value)[2],
                               !.f = And8(u16_to_u8(value)[1], \hF0)]
      [] r = "BC" -> [c EXCEPT !.b = u16_to_u8(value)[2], !.c = u16_to_u8(value)[1]]
      [] r = "DE" -> [c EXCEPT !.d = u16_to_u8(value)[2], !.e = u16_to_u8(value)[1]]
      [] r = "HL" -> [c EXCEPT !.h = u16_to_u8(value)[2], !.l = u16_to_u8(value)[1]]
      [] r = "PC" -> [c EXCEPT !.pc = value]
      [] r = "SP" -> [c EXCEPT !.sp = value]

Cpu_write_register_wide(c, r, value) ==
    CASE r = "AF" -> [c EXCEPT !.a = u16_to_u8(value)[1],
                               !.f = And8(u16_to_u8(value)[2], \hF0)]
      [] r = "BC" -> [c EXCEPT !.b = u16_to_u8(value)[1], !.c = u16_to_u8(value)[2]]
      [] r = "DE" -> [c EXCEPT !.d = u16_to_u8(value)[1], !.e = u16_to_u8(value)[2]]
      [] r = "HL" -> [c EXCEPT !.h = u16_to_u8(value)[1], !.l = u16_to_u8(value)[2]]
      [] r = "PC" -> [c EXCEPT !.pc = value]
      [] r = "SP" -> [c EXCEPT !.sp = value]

Cpu_read_flags(c) ==
    [zero |-> And8(c.f, 128) # 0, subtract |-> And8(c.f, 64) # 0,
     half_carry |-> And8(c.f, 32) # 0, carry |-> And8(c.f, 16) # 0]

\* One match arm of Cpu::write_flags: o is None, Some(TRUE) or Some(FALSE).
WriteFlagBit(f, b, o) ==
    IF o = None THEN f
    ELSE IF o[1] THEN Or8(f, 2 ^ b) ELSE And8(f, Not8(2 ^ b))

WriteFlags(zero, subtract, half_carry, carry) ==
    [zero |-> zero, subtract |-> subtract, half_carry |-> half_carry, carry |-> carry]

\* A write_flags that clears the flags it is not given.
Cpu_write_flags_total(c, f) ==
    [c EXCEPT !.f = WriteFlagBit(WriteFlagBit(WriteFlagBit(WriteFlagBit(
                        @, 7, IF f.zero = None THEN Some(FALSE) ELSE f.zero),
                        6, IF f.subtract = None THEN Some(FALSE) ELSE f.subtract),
                        5, IF f.half_carry = None THEN Some(FALSE) ELSE f.half_carry),
                        4, IF f.carry = None THEN Some(FALSE) ELSE f.carry)]

Cpu_write_flags(c, f) ==
    [c EXCEPT !.f = WriteFlagBit(WriteFlagBit(WriteFlagBit(WriteFlagBit(
                        @, 7, f.zero), 6, f.subtract), 5, f.half_carry), 4, f.carry)]

Cpu_request_ime_enable(c) == [c EXCEPT !.steps_since_request_ime_enable = Some(0)]

Cpu_request_ime_disable(c) ==
    [c EXCEPT !.ime = FALSE, !.steps_since_request_ime_enable = None]

\* Cpu::check_interrupts_enabled without the one-step delay.
Cpu_check_interrupts_enabled_undelayed(c) ==
    IF c.steps_since_request_ime_enable # None
    THEN [c EXCEPT !.ime = TRUE, !.steps_since_request_ime_enable = None]
    ELSE c

Cpu_check_interrupts_enabled(c) ==
    IF c.steps_since_request_ime_enable = Some(1)
    THEN [c EXCEPT !.ime = TRUE, !.steps_since_request_ime_enable = None]
    ELSE IF c.steps_since_request_ime_enable = Some(0)
    THEN [c EXCEPT !.steps_since_request_ime_enable = Some(1)]
    ELSE c

\* The if / else-if chain of Cpu::handled_interrupts: the first source k with
\* bit(ie, k) & bit(if, k) == 1, or None.
SelectedInterrupt(ie_register, if_register) ==
    IF And8(bit(ie_register, 0), bit(if_register, 0)) = 1 THEN Some(0)
    ELSE IF And8(bit(ie_register, 1), bit(if_register, 1)) = 1 THEN Some(1)
    ELSE IF And8(bit(ie_register, 2), bit(if_register, 2)) = 1 THEN Some(2)
    ELSE IF And8(bit(ie_register, 3), bit(if_register, 3)) = 1 THEN Some(3)
    ELSE IF And8(bit(ie_register, 4), bit(if_register, 4)) = 1 THEN Some(4)
    ELSE None

\* Cpu::handled_interrupts: the returned bool and the context it leaves.
Cpu_handled_interrupts(s) ==
    LET ie_register == Memory_read(s.memory, ADDRESS_INTERRUPT_ENABLE_REGISTER)
        if_register == Memory_read(s.memory, ADDRESS_INTERRUPT_FLAG_REGISTER)
        selected == SelectedInterrupt(ie_register, if_register)
    IN  IF ~s.cpu.ime \/ selected = None
        THEN [handled |-> FALSE, s |-> s]
        ELSE
          LET bit_to_reset == selected[1]
              c1 == [s.cpu EXCEPT !.ime = FALSE]
              m1 == Memory_write(s.memory, ADDRESS_INTERRUPT_FLAG_REGISTER,
                                 set_bits(if_register, 0, 2 ^ bit_to_reset))
              pc == Cpu_read_register_wide(c1, "PC")
              sp == Cpu_read_register_wide(c1, "SP")
              new_sp == W16(sp - 2)
              m2 == Memory_write(m1, new_sp, u16_to_u8(pc)[2])
              m3 == Memory_write(m2, W16(new_sp + 1), u16_to_u8(pc)[1])
              c2 == Cpu_write_register_wide(c1, "SP", new_sp)
              c3 == Cpu_write_register_wide(c2, "PC", InterruptVector(bit_to_reset))
          IN  [handled |-> TRUE,
               s |-> Ctx(c3, m3, s.ovf \/ sp < 2 \/ new_sp + 1 > 65535)]

(***************************************************************************)
(* opcode.rs: the handlers.  Each maps the context before to the context   *)
(* after; pc has already been advanced past the instruction.               *)
(***************************************************************************)
half_carried_add16(a, b) == (W16((a % 4096) + (b % 4096)) \div 4096) % 2 = 1

\* The carry out of bit 7 in place of the carry out of bit 3.
half_carried_add8_full(a, b) == a + b > 255

half_carried_add8(a, b) == And8(W8(And8(a, 15) + And8(b, 15)), 16) = 16

half_carried_sub8(a, b) == And8(W8(And8(a, 15) - And8(b, 15)), 16) = 16

\* memory.read(Address(pc - n)) of an immediate operand.
ReadOperand(s, n) == Memory_read(s.memory, W16(s.cpu.pc - n))

add_hl_r16(s, r) ==
    LET hl == Cpu_read_register_wide(s.cpu, "HL")
        value == Cpu_read_register_wide(s.cpu, r)
        c1 == Cpu_write_register_wide(s.cpu, "HL", W16(hl + value))
    IN  [s EXCEPT !.cpu = Cpu_write_flags(c1,
            WriteFlags(None, Some(FALSE), Some(half_carried_add16(hl, value)),
                       Some(hl + value > 65535)))]

add_r8(s, r) ==
    LET a == Cpu_read_register(s.cpu, "A")
        b == Cpu_read_register(s.cpu, r)
        result == W8(a + b)
        c1 == Cpu_write_register(s.cpu, "A", result)
    IN  [s EXCEPT !.cpu = Cpu_write_flags(c1,
            WriteFlags(Some(result = 0), Some(FALSE), Some(half_carried_add8(a, b)),
                       Some(a + b > 255)))]

adc_r8(s, r) ==
    LET a == Cpu_read_register(s.cpu, "A")
        carry == Cpu_read_flags(s.cpu).carry
        carry_bit == IF carry THEN 1 ELSE 0
        b == W8(Cpu_read_register(s.cpu, r) + carry_bit)
        result == IF carry THEN W8(W8(a + b) + 1) ELSE W8(a + b)
        overflowed == a + b > 255 \/ (carry /\ W8(a + b) + 1 > 255)
        c1 == Cpu_write_register(s.cpu, "A", result)
    IN  [s EXCEPT !.cpu = Cpu_write_flags(c1,
            WriteFlags(Some(result = 0), Some(FALSE), Some(half_carried_add8(a, b)),
                       Some(overflowed)))]

and_r8(s, r) ==
    LET result == And8(Cpu_read_register(s.cpu, "A"), Cpu_read_register(s.cpu, r))
        c1 == Cpu_write_register(s.cpu, "A", result)
    IN  [s EXCEPT !.cpu = Cpu_write_flags(c1,
            WriteFlags(Some(result = 0), Some(FALSE), Some(TRUE), Some(FALSE)))]

bit_indirect_hl(s, b) ==
    LET value == Memory_read(s.memory, Cpu_read_register_wide(s.cpu, "HL"))
    IN  [s EXCEPT !.cpu = Cpu_write_flags(s.cpu,
            WriteFlags(Some(And8(value, 2 ^ b) = 0), Some(FALSE), Some(TRUE), None))]

bit_r8(s, b, r) ==
    [s EXCEPT !.cpu = Cpu_write_flags(s.cpu,
        WriteFlags(Some(And8(Cpu_read_register(s.cpu, r), 2 ^ b) = 0),
                   Some(FALSE), Some(TRUE), None))]

call_a16(s) ==
    LET pc == Cpu_read_register_wide(s.cpu, "PC")
        address == u8_to_u16(ReadOperand(s, 1), ReadOperand(s, 2))
        sp == Cpu_read_register_wide(s.cpu, "SP")
        new_sp == W16(sp - 2)
        m1 == Memory_write(s.memory, new_sp, u16_to_u8(pc)[2])
        m2 == Memory_write(m1, W16(new_sp + 1), u16_to_u8(pc)[1])
        c1 == Cpu_write_register_wide(s.cpu, "SP", new_sp)
    IN  Ctx(Cpu_write_register_wide(c1, "PC", address), m2,
            s.ovf \/ pc < 2 \/ sp < 2 \/ new_sp + 1 > 65535)

cp_r8(s, r) ==
    LET a == Cpu_read_register(s.cpu, "A")
        b == Cpu_read_register(s.cpu, r)
    IN  [s EXCEPT !.cpu = Cpu_write_flags(s.cpu,
            WriteFlags(Some(W8(a - b) = 0), Some(TRUE), Some(half_carried_sub8(a, b)),
                       Some(a < b)))]

dec_r8(s, r) ==
    LET a == Cpu_read_register(s.cpu, r)
        result == W8(a - 1)
        c1 == Cpu_write_flags(s.cpu,
                WriteFlags(Some(result = 0), Some(TRUE), Some(half_carried_sub8(a, 1)), None))
    IN  [s EXCEPT !.cpu = Cpu_write_register(c1, r, result)]

dec_r16(s, r) ==
    LET value == Cpu_read_register_wide(s.cpu, r)
    IN  [s EXCEPT !.cpu = Cpu_write_register_wide(@, r, W16(value - 1)),
                  !.ovf = @ \/ value < 1]

\* An increment that also writes the carry flag, as an 8-bit ADD would.
inc_r8_carrying(s, r) ==
    LET a == Cpu_read_register(s.cpu, r)
        result == W8(a + 1)
        c1 == Cpu_write_register(s.cpu, r, result)
    IN  [s EXCEPT !.cpu = Cpu_write_flags(c1,
            WriteFlags(Some(result = 0), Some(FALSE), Some(half_carried_add8(a, 1)),
                       Some(a + 1 > 255)))]

inc_r8(s, r) ==
    LET a == Cpu_read_register(s.cpu, r)
        result == W8(a + 1)
        c1 == Cpu_write_register(s.cpu, r, result)
    IN  [s EXCEPT !.cpu = Cpu_write_flags(c1,
            WriteFlags(Some(result = 0), Some(FALSE), Some(half_carried_add8(a, 1)), None))]

inc_r16(s, r) ==
    LET value == Cpu_read_register_wide(s.cpu, r)
    IN  [s EXCEPT !.cpu = Cpu_write_register_wide(@, r, W16(value + 1)),
                  !.ovf = @ \/ value + 1 > 65535]

jump(s) ==
    [s EXCEPT !.cpu = Cpu_write_register_wide(@, "PC",
                          u8_to_u16(ReadOperand(s, 1), ReadOperand(s, 2))),
              !.ovf = @ \/ s.cpu.pc < 2]

\* The operand is reinterpreted as an i8 and added with wrapping_add_signed.
jump_relative(s) ==
    LET imm == IF ReadOperand(s, 1) >= 128 THEN ReadOperand(s, 1) - 256
               ELSE ReadOperand(s, 1)
    IN  [s EXCEPT !.cpu = Cpu_write_register_wide(@, "PC", W16(s.cpu.pc + imm)),
                  !.ovf = @ \/ s.cpu.pc < 1]

\* The closures of decode's entries 0x20, 0x28, 0x30 and 0x38: jump_relative
\* when the condition on the flags holds, nothing otherwise.
\* A conditional jump that tests the opposite condition.
jr_nz_inverted(s) == IF Cpu_read_flags(s.cpu).zero THEN jump_relative(s) ELSE s

jr_nz(s) == IF ~Cpu_read_flags(s.cpu).zero THEN jump_relative(s) ELSE s

jr_z(s) == IF ~Cpu_read_flags(s.cpu).zero THEN s ELSE jump_relative(s)

jr_nc(s) == IF Cpu_read_flags(s.cpu).carry THEN s ELSE jump_relative(s)

jr_c(s) == IF ~Cpu_read_flags(s.cpu).carry THEN s ELSE jump_relative(s)

\* ld_r8_r8 copying the other way.
ld_r8_r8_reversed(s, dst_register, src_register) ==
    [s EXCEPT !.cpu = Cpu_write_register(@, src_register,
                                         Cpu_read_register(s.cpu, dst_register))]

ld_r8_r8(s, dst_register, src_register) ==
    [s EXCEPT !.cpu = Cpu_write_register(@, dst_register,
                                         Cpu_read_register(s.cpu, src_register))]

ld_r8_n8(s, r) ==
    [s EXCEPT !.cpu = Cpu_write_register(@, r, ReadOperand(s, 1)),
              !.ovf = @ \/ s.cpu.pc < 1]

\* The closure of decode's entry 0x36, LD [HL], n8: its `pc` is read from SP.
ld_indirect_hl_n8(s) ==
    LET pc == Cpu_read_register_wide(s.cpu, "SP")
        dst_value == Cpu_read_register_wide(s.cpu, "HL")
        src_value == Memory_read(s.memory, W16(pc - 1))
    IN  [s EXCEPT !.memory = Memory_write(@, dst_value, src_value),
                  !.ovf = @ \/ pc < 1]

ld_r16_n16(s, r) ==
    [s EXCEPT !.cpu = Cpu_write_register_wide(@, r,
                          u8_to_u16(ReadOperand(s, 1), ReadOperand(s, 2))),
              !.ovf = @ \/ s.cpu.pc < 2]

or_r8(s, r) ==
    LET result == Or8(Cpu_read_register(s.cpu, "A"), Cpu_read_register(s.cpu, r))
        c1 == Cpu_write_register(s.cpu, "A", result)
    IN  [s EXCEPT !.cpu = Cpu_write_flags(c1,
            WriteFlags(Some(result = 0), Some(FALSE), Some(FALSE), Some(FALSE)))]

pop(s, r) ==
    LET sp == Cpu_read_register_wide(s.cpu, "SP")
        lsb == Memory_read(s.memory, sp)
        msb == Memory_read(s.memory, W16(sp + 1))
        c1 == Cpu_write_register_wide(s.cpu, "SP", W16(sp + 2))
    IN  [s EXCEPT !.cpu = Cpu_write_register_wide(c1, r, u8_to_u16(msb, lsb)),
                  !.ovf = @ \/ sp + 2 > 65535]

\* push with the two bytes in the other order.
push_swapped(s, r) ==
    LET value == Cpu_read_register_wide(s.cpu, r)
        sp == Cpu_read_register_wide(s.cpu, "SP")
        m1 == Memory_write(s.memory, W16(sp - 1), u16_to_u8(value)[2])
        m2 == Memory_write(m1, W16(sp - 2), u16_to_u8(value)[1])
    IN  Ctx(Cpu_write_register_wide(s.cpu, "SP", W16(sp - 2)), m2, s.ovf \/ sp < 2)

push(s, r) ==
    LET value == Cpu_read_register_wide(s.cpu, r)
        sp == Cpu_read_register_wide(s.cpu, "SP")
        m1 == Memory_write(s.memory, W16(sp - 1), u16_to_u8(value)[1])
        m2 == Memory_write(m1, W16(sp - 2), u16_to_u8(value)[2])
    IN  Ctx(Cpu_write_register_wide(s.cpu, "SP", W16(sp - 2)), m2, s.ovf \/ sp < 2)

res_indirect_hl(s, b) ==
    LET hl == Cpu_read_register_wide(s.cpu, "HL")
    IN  [s EXCEPT !.memory = Memory_write(@, hl,
                                 set_bits(Memory_read(s.memory, hl), 1, 2 ^ b))]

res_r8(s, b, r) ==
    [s EXCEPT !.cpu = Cpu_write_register(@, r,
                          set_bits(Cpu_read_register(s.cpu, r), 1, 2 ^ b))]

rl_r8(s, r) ==
    LET register_value == Cpu_read_register(s.cpu, r)
        result == IF Cpu_read_flags(s.cpu).carry
                  THEN Or8(W8(register_value * 2), 1) ELSE W8(register_value * 2)
        c1 == Cpu_write_flags(s.cpu,
                WriteFlags(Some(result = 0), Some(FALSE), Some(FALSE),
                           Some(And8(register_value, 128) # 0)))
    IN  [s EXCEPT !.cpu = Cpu_write_register(c1, r, result)]

rr_r8(s, r) ==
    LET value == Cpu_read_register(s.cpu, r)
        result == IF Cpu_read_flags(s.cpu).carry
                  THEN Or8(value \div 2, 128) ELSE value \div 2
        c1 == Cpu_write_flags(s.cpu,
                WriteFlags(Some(result = 0), Some(FALSE), Some(FALSE),
                           Some(And8(value, 1) # 0)))
    IN  [s EXCEPT !.cpu = Cpu_write_register(c1, r, result)]

rst(s, address) ==
    LET pc == Cpu_read_register_wide(s.cpu, "PC")
        sp == Cpu_read_register_wide(s.cpu, "SP")
        m1 == Memory_write(s.memory, W16(sp - 1), u16_to_u8(pc)[1])
        m2 == Memory_write(m1, W16(sp - 2), u16_to_u8(pc)[2])
        c1 == Cpu_write_register_wide(s.cpu, "SP", W16(sp - 2))
    IN  Ctx(Cpu_write_register_wide(c1, "PC", address), m2, s.ovf \/ sp < 2)

sub_r8(s, r) ==
    LET a == Cpu_read_register(s.cpu, "A")
        b == Cpu_read_register(s.cpu, r)
        result == W8(a - b)
        c1 == Cpu_write_register(s.cpu, "A", result)
    IN  [s EXCEPT !.cpu = Cpu_write_flags(c1,
            WriteFlags(Some(result = 0), Some(TRUE), Some(half_carried_sub8(a, b)),
                       Some(a < b)))]

\* The closure of decode's entry 0xDE, SBC A, n8: it reads the byte at PC.
sbc_a_n8(s) ==
    LET a == Cpu_read_register(s.cpu, "A")
        carry_bit == IF Cpu_read_flags(s.cpu).carry THEN 1 ELSE 0
        pc == Cpu_read_register_wide(s.cpu, "PC")
        b == W8(Memory_read(s.memory, pc) + carry_bit)
        result == W8(a - b)
        c1 == Cpu_write_register(s.cpu, "A", result)
    IN  [s EXCEPT !.cpu = Cpu_write_flags(c1,
            WriteFlags(Some(result = 0), Some(TRUE), Some(half_carried_sub8(a, b)),
                       Some(a < b)))]

sbc_r8(s, r) ==
    LET a == Cpu_read_register(s.cpu, "A")
        carry_bit == IF Cpu_read_flags(s.cpu).carry THEN 1 ELSE 0
        b == W8(Cpu_read_register(s.cpu, r) + carry_bit)
        result == W8(a - b)
        c1 == Cpu_write_register(s.cpu, "A", result)
    IN  [s EXCEPT !.cpu = Cpu_write_flags(c1,
            WriteFlags(Some(result = 0), Some(TRUE), Some(half_carried_sub8(a, b)),
                       Some(a < b)))]

set_indirect_hl(s, b) ==
    LET hl == Cpu_read_register_wide(s.cpu, "HL")
    IN  [s EXCEPT !.memory = Memory_write(@, hl,
                                 set_bits(Memory_read(s.memory, hl), 2 ^ b, 2 ^ b))]

sla_r8(s, r) ==
    LET value == Cpu_read_register(s.cpu, r)
        result == W8(value * 2)
        c1 == Cpu_write_register(s.cpu, r, result)
        c2 == Cpu_write_flags(c1,
                WriteFlags(Some(result = 0), Some(FALSE), Some(FALSE),
                           Some(bit(value, 7) # 0)))
    IN  [s EXCEPT !.cpu = Cpu_write_register(c2, r, result)]

srl_r8(s, r) ==
    LET value == Cpu_read_register(s.cpu, r)
        result == value \div 2
        c1 == Cpu_write_register(s.cpu, r, result)
    IN  [s EXCEPT !.cpu = Cpu_write_flags(c1,
            WriteFlags(Some(result = 0), Some(FALSE), Some(FALSE),
                       Some(bit(value, 0) # 0)))]

swap_r8(s, r) ==
    LET value == Cpu_read_register(s.cpu, r)
        result == (value \div 16) + (value % 16) * 16
        c1 == Cpu_write_register(s.cpu, r, result)
    IN  [s EXCEPT !.cpu = Cpu_write_flags(c1,
            WriteFlags(Some(result = 0), Some(FALSE), Some(FALSE), Some(FALSE)))]

xor_r8(s, register) ==
    LET result == Xor8(Cpu_read_register(s.cpu, "A"), Cpu_read_register(s.cpu, register))
        c1 == Cpu_write_register(s.cpu, "A", result)
    IN  [s EXCEPT !.cpu = Cpu_write_flags(c1,
            WriteFlags(Some(result = 0), Some(FALSE), Some(FALSE), Some(FALSE)))]

\* The closures written in place in decode.
\* The test each conditional entry of decode makes on the flags before it
\* calls the unconditional handler: NZ, Z, NC or C.
ConditionHolds(c, cc) ==
    CASE cc = "NZ" -> ~Cpu_read_flags(c).zero
      [] cc = "Z" -> Cpu_read_flags(c).zero
      [] cc = "NC" -> ~Cpu_read_flags(c).carry
      [] cc = "C" -> Cpu_read_flags(c).carry

\* A conditional handler that tests the opposite condition.
ret_cc_inverted(s, cc) == IF ConditionHolds(s.cpu, cc) THEN s ELSE pop(s, "PC")

\* The closures of decode's entries 0xC0, 0xC8, 0xD0, 0xD8 (RET cc), 0xC2,
\* 0xCA, 0xD2, 0xDA (JP cc, a16) and 0xC4, 0xCC, 0xD4, 0xDC (CALL cc, a16):
\* return early when the condition fails, else call the handler.
ret_cc(s, cc) == IF ~ConditionHolds(s.cpu, cc) THEN s ELSE pop(s, "PC")

jp_cc(s, cc) == IF ~ConditionHolds(s.cpu, cc) THEN s ELSE jump(s)

call_cc(s, cc) == IF ~ConditionHolds(s.cpu, cc) THEN s ELSE call_a16(s)

reti(s) == pop([s EXCEPT !.cpu = Cpu_request_ime_enable(@)], "PC")

ldh_a8_a(s) ==
    [s EXCEPT !.memory = Memory_write(@, u8_to_u16(\hFF, ReadOperand(s, 1)),
                                      Cpu_read_register(s.cpu, "A")),
              !.ovf = @ \/ s.cpu.pc < 1]

ld_a16_a(s) ==
    [s EXCEPT !.memory = Memory_write(@, u8_to_u16(ReadOperand(s, 1), ReadOperand(s, 2)),
                                      Cpu_read_register(s.cpu, "A")),
              !.ovf = @ \/ s.cpu.pc < 2]

\* enum IndirectAddressingMode
IndirectAddressingMode == {"Retain", "Decrement", "Increment"}

\* ld_indirect_r16_r8: store the register at the address held by the pair,
\* then leave, increment or decrement the pair (with unchecked arithmetic).
ld_indirect_r16_r8(s, dst_register, src_register, mode) ==
    LET dst_value == Cpu_read_register_wide(s.cpu, dst_register)
        src_value == Cpu_read_register(s.cpu, src_register)
        new_dst_register == CASE mode = "Retain" -> dst_value
                              [] mode = "Increment" -> dst_value + 1
                              [] mode = "Decrement" -> dst_value - 1
    IN  [s EXCEPT !.memory = Memory_write(@, dst_value, src_value),
                  !.cpu = Cpu_write_register_wide(@, dst_register, W16(new_dst_register)),
                  !.ovf = @ \/ new_dst_register < 0 \/ new_dst_register > 65535]

ldh_a_a8(s) ==
    [s EXCEPT !.cpu = Cpu_write_register(@, "A",
                          Memory_read(s.memory, u8_to_u16(\hFF, ReadOperand(s, 1)))),
              !.ovf = @ \/ s.cpu.pc < 1]

ld_a_a16(s) ==
    [s EXCEPT !.cpu = Cpu_write_register(@, "A",
                          Memory_read(s.memory,
                                      u8_to_u16(ReadOperand(s, 1), ReadOperand(s, 2)))),
              !.ovf = @ \/ s.cpu.pc < 2]

di(s) == [s EXCEPT !.cpu = Cpu_request_ime_disable(@)]

ei(s) == [s EXCEPT !.cpu = Cpu_request_ime_enable(@)]

(***************************************************************************)
(* opcode.rs: decode, decode_prefixed, Opcode::execute                     *)
(***************************************************************************)
\* An Opcode: handler is None or Some(<<name, arguments ...>>) naming one of
\* the handlers above.
Opcode(mnemonic, size_bytes, handler) ==
    [mnemonic |-> mnemonic, size_bytes |-> size_bytes, handler |-> handler]

\* The operand encoded in bits 0..2 (or 3..5) of an opcode byte.
RegisterOf(i) == <<"B", "C", "D", "E", "H", "L", "[HL]", "A">>[i + 1]

\* The ALU handler encoded in bits 3..5 of opcodes 0x80 .. 0xBF.
AluOf(i) ==
    <<"add_r8", "adc_r8", "sub_r8", "sbc_r8", "and_r8", "xor_r8", "or_r8", "cp_r8">>[i + 1]

\* Bytes for which decode has no entry (its `_ => None` arm).
UndefinedOpcodes ==
    {\hD3, \hDB, \hDD, \hE3, \hE4, \hEB, \hEC, \hED, \hF4, \hFC, \hFD}

\* Entries of decode whose handler is None.
UnimplementedOpcodes == {\h0F, \h27, \h37, \h3F, \h76, \h96, \h9E, \hA6, \hF2}

\* The entries of decode that are modelled; the remaining entries (loads from
\* and arithmetic through [HL], [BC], [DE], the accumulator rotates, most
\* arithmetic with an immediate, ADD SP / LD HL,SP) are not, and a step that
\* would fetch one of them is not taken.
ModelledOpcodes ==
    UndefinedOpcodes \cup UnimplementedOpcodes
    \cup {b \in 0 .. 63 : b % 8 \in {4, 5, 6} /\ b \div 8 # 6}
    \cup {b \in 0 .. 63 : b % 16 \in {1, 3, 9, 11}}
    \cup {b \in 64 .. 191 : b % 8 # 6 /\ (b \div 8) # 14}
    \cup {b \in 112 .. 119 : b # \h76}
    \cup {\h02, \h12, \h20, \h22, \h28, \h30, \h32, \h36, \h38, \hDE}
    \cup {\hC0, \hC8, \hD0, \hD8, \hC2, \hCA, \hD2, \hDA, \hC4, \hCC, \hD4, \hDC}
    \cup {b \in 192 .. 255 : b % 8 = 7}
    \cup {\h00, \h18, \hC1, \hD1, \hE1, \hF1, \hC5, \hD5, \hE5, \hF5, \hC3, \hC9,
          \hCB, \hCD, \hD9, \hE0, \hEA, \hF0, \hF3, \hFA, \hFB}

decode(byte) ==
    CASE byte \in UndefinedOpcodes -> None
      [] byte \in UnimplementedOpcodes -> Some(Opcode("unimplemented", 1, None))
      [] byte = \h00 -> Some(Opcode("NOP", 1, Some(<<"nop">>)))
      [] byte < 64 /\ byte % 16 = 1 ->
            Some(Opcode("LD r16, n16", 3,
                 Some(<<"ld_r16_n16", <<"BC", "DE", "HL", "SP">>[byte \div 16 + 1]>>)))
      [] byte < 64 /\ byte % 16 = 3 ->
            Some(Opcode("INC r16", 1,
                 Some(<<"inc_r16", <<"BC", "DE", "HL", "SP">>[byte \div 16 + 1]>>)))
      [] byte < 64 /\ byte % 16 = 9 ->
            Some(Opcode("ADD HL, r16", 1,
                 Some(<<"add_hl_r16", <<"BC", "DE", "HL", "SP">>[byte \div 16 + 1]>>)))
      [] byte < 64 /\ byte % 16 = 11 ->
            Some(Opcode("DEC r16", 1,
                 Some(<<"dec_r16", <<"BC", "DE", "HL", "SP">>[byte \div 16 + 1]>>)))
      [] byte < 64 /\ byte % 8 = 4 /\ byte \div 8 # 6 ->
            Some(Opcode("INC r8", 1, Some(<<"inc_r8", RegisterOf(byte \div 8)>>)))
      [] byte < 64 /\ byte % 8 = 5 /\ byte \div 8 # 6 ->
            Some(Opcode("DEC r8", 1, Some(<<"dec_r8", RegisterOf(byte \div 8)>>)))
      [] byte < 64 /\ byte % 8 = 6 /\ byte \div 8 # 6 ->
            Some(Opcode("LD r8, n8", 2, Some(<<"ld_r8_n8", RegisterOf(byte \div 8)>>)))
      [] byte = \h18 -> Some(Opcode("JR e8", 2, Some(<<"jump_relative">>)))
      [] byte \in {\hC0, \hC8, \hD0, \hD8} ->
            Some(Opcode("RET cc", 1,
                 Some(<<"ret_cc", <<"NZ", "Z", "NC", "C">>[((byte \div 8) % 4) + 1]>>)))
      [] byte \in {\hC2, \hCA, \hD2, \hDA} ->
            Some(Opcode("JP cc, a16", 3,
                 Some(<<"jp_cc", <<"NZ", "Z", "NC", "C">>[((byte \div 8) % 4) + 1]>>)))
      [] byte \in {\hC4, \hCC, \hD4, \hDC} ->
            Some(Opcode("CALL cc, a16", 3,
                 Some(<<"call_cc", <<"NZ", "Z", "NC", "C">>[((byte \div 8) % 4) + 1]>>)))
      [] byte = \h36 -> Some(Opcode("LD [HL], n8", 2, Some(<<"ld_indirect_hl_n8">>)))
      [] byte = \hDE -> Some(Opcode("SBC A, n8", 2, Some(<<"sbc_a_n8">>)))
      [] byte = \h20 -> Some(Opcode("JR NZ, e8", 2, Some(<<"jr_nz">>)))
      [] byte = \h28 -> Some(Opcode("JR Z, e8", 2, Some(<<"jr_z">>)))
      [] byte = \h30 -> Some(Opcode("JR NC, e8", 2, Some(<<"jr_nc">>)))
      [] byte = \h38 -> Some(Opcode("JR C, e8", 2, Some(<<"jr_c">>)))
      [] byte \in {\h02, \h12} ->
            Some(Opcode("LD [r16], A", 1,
                 Some(<<"ld_indirect_r16_r8", <<"BC", "DE">>[byte \div 16 + 1], "A",
                        "Retain">>)))
      [] byte = \h22 ->
            Some(Opcode("LD [HL+], A", 1,
                 Some(<<"ld_indirect_r16_r8", "HL", "A", "Increment">>)))
      [] byte = \h32 ->
            Some(Opcode("LD [HL-], A", 1,
                 Some(<<"ld_indirect_r16_r8", "HL", "A", "Decrement">>)))
      [] byte \in 112 .. 119 /\ byte # \h76 ->
            Some(Opcode("LD [HL], r8", 1,
                 Some(<<"ld_indirect_r16_r8", "HL", RegisterOf(byte % 8), "Retain">>)))
      [] byte \in 64 .. 127 /\ byte % 8 # 6 /\ byte \div 8 # 14 ->
            Some(Opcode("LD r8, r8", 1,
                 Some(<<"ld_r8_r8", RegisterOf((byte - 64) \div 8), RegisterOf(byte % 8)>>)))
      [] byte \in 128 .. 191 /\ byte % 8 # 6 ->
            Some(Opcode("ALU A, r8", 1,
                 Some(<<AluOf((byte - 128) \div 8), RegisterOf(byte % 8)>>)))
      [] byte \in {\hC1, \hD1, \hE1, \hF1} ->
            Some(Opcode("POP r16", 1,
                 Some(<<"pop", <<"BC", "DE", "HL", "AF">>[(byte - 192) \div 16 + 1]>>)))
      [] byte \in {\hC5, \hD5, \hE5, \hF5} ->
            Some(Opcode("PUSH r16", 1,
                 Some(<<"push", <<"BC", "DE", "HL", "AF">>[(byte - 192) \div 16 + 1]>>)))
      [] byte >= 192 /\ byte % 8 = 7 ->
            Some(Opcode("RST", 1, Some(<<"rst", byte - \hC7>>)))
      [] byte = \hC3 -> Some(Opcode("JP a16", 3, Some(<<"jump">>)))
      [] byte = \hC9 -> Some(Opcode("RET", 1, Some(<<"pop", "PC">>)))
      [] byte = \hCB -> Some(Opcode("PREFIX", 1, Some(<<"nop">>)))
      [] byte = \hCD -> Some(Opcode("CALL a16", 3, Some(<<"call_a16">>)))
      [] byte = \hD9 -> Some(Opcode("RETI ", 1, Some(<<"reti">>)))
      [] byte = \hE0 -> Some(Opcode("LDH [a8], A", 2, Some(<<"ldh_a8_a">>)))
      [] byte = \hEA -> Some(Opcode("LD [a16], A", 3, Some(<<"ld_a16_a">>)))
      [] byte = \hF0 -> Some(Opcode("LDH A, [a8]", 2, Some(<<"ldh_a_a8">>)))
      [] byte = \hF3 -> Some(Opcode("DI", 1, Some(<<"di">>)))
      [] byte = \hFA -> Some(Opcode("LD A, [a16]", 3, Some(<<"ld_a_a16">>)))
      [] byte = \hFB -> Some(Opcode("EI ", 1, Some(<<"ei">>)))

\* decode_prefixed has an entry for each of the 256 bytes: bits 0..2 select
\* the operand, bits 3..7 the operation (and the bit number).
decode_prefixed(byte) ==
    LET r == RegisterOf(byte % 8)
        group == byte \div 8
        b == (byte \div 8) % 8
    IN  CASE group \in {2, 3, 4, 6, 7} /\ r # "[HL]" ->
                Some(Opcode("shift r8", 1,
                     Some(<<<<"", "", "rl_r8", "rr_r8", "sla_r8", "", "swap_r8",
                              "srl_r8">>[group + 1], r>>)))
          [] group \in {2, 3, 4, 6, 7} /\ r = "[HL]" ->
                Some(Opcode("shift [HL]", 1, None))
          [] group \in {0, 1, 5} -> Some(Opcode("RLC / RRC / SRA", 1, None))
          [] group \in 8 .. 15 /\ r # "[HL]" ->
                Some(Opcode("BIT b, r8", 1, Some(<<"bit_r8", b, r>>)))
          [] group \in 8 .. 15 /\ r = "[HL]" ->
                Some(Opcode("BIT b, [HL]", 1, Some(<<"bit_indirect_hl", b>>)))
          [] group \in 16 .. 23 /\ r # "[HL]" ->
                Some(Opcode("RES b, r8", 1, Some(<<"res_r8", b, r>>)))
          [] group \in 16 .. 23 /\ r = "[HL]" ->
                Some(Opcode("RES b, [HL]", 1, Some(<<"res_indirect_hl", b>>)))
          [] group \in 24 .. 31 /\ r # "[HL]" -> Some(Opcode("SET b, r8", 1, None))
          [] group \in 24 .. 31 /\ r = "[HL]" ->
                Some(Opcode("SET b, [HL]", 1, Some(<<"set_indirect_hl", b>>)))

\* Opcode::execute: run the handler; an entry without one only prints.
Opcode_execute(opcode, s) ==
    IF opcode.handler = None THEN s
    ELSE
      LET h == opcode.handler[1]
      IN  CASE h[1] = "nop" -> s
            [] h[1] = "add_hl_r16" -> add_hl_r16(s, h[2])
            [] h[1] = "add_r8" -> add_r8(s, h[2])
            [] h[1] = "adc_r8" -> adc_r8(s, h[2])
            [] h[1] = "and_r8" -> and_r8(s, h[2])
            [] h[1] = "bit_indirect_hl" -> bit_indirect_hl(s, h[2])
            [] h[1] = "bit_r8" -> bit_r8(s, h[2], h[3])
            [] h[1] = "call_a16" -> call_a16(s)
            [] h[1] = "cp_r8" -> cp_r8(s, h[2])
            [] h[1] = "dec_r8" -> dec_r8(s, h[2])
            [] h[1] = "dec_r16" -> dec_r16(s, h[2])
            [] h[1] = "inc_r8" -> inc_r8(s, h[2])
            [] h[1] = "inc_r16" -> inc_r16(s, h[2])
            [] h[1] = "jump" -> jump(s)
            [] h[1] = "jump_relative" -> jump_relative(s)
            [] h[1] = "ret_cc" -> ret_cc(s, h[2])
            [] h[1] = "jp_cc" -> jp_cc(s, h[2])
            [] h[1] = "call_cc" -> call_cc(s, h[2])
            [] h[1] = "ld_indirect_hl_n8" -> ld_indirect_hl_n8(s)
            [] h[1] = "sbc_a_n8" -> sbc_a_n8(s)
            [] h[1] = "jr_nz" -> jr_nz(s)
            [] h[1] = "jr_z" -> jr_z(s)
            [] h[1] = "jr_nc" -> jr_nc(s)
            [] h[1] = "jr_c" -> jr_c(s)
            [] h[1] = "ld_indirect_r16_r8" -> ld_indirect_r16_r8(s, h[2], h[3], h[4])
            [] h[1] = "ld_r8_r8" -> ld_r8_r8(s, h[2], h[3])
            [] h[1] = "ld_r8_n8" -> ld_r8_n8(s, h[2])
            [] h[1] = "ld_r16_n16" -> ld_r16_n16(s, h[2])
            [] h[1] = "or_r8" -> or_r8(s, h[2])
            [] h[1] = "pop" -> pop(s, h[2])
            [] h[1] = "push" -> push(s, h[2])
            [] h[1] = "res_indirect_hl" -> res_indirect_hl(s, h[2])
            [] h[1] = "res_r8" -> res_r8(s, h[2], h[3])
            [] h[1] = "rl_r8" -> rl_r8(s, h[2])
            [] h[1] = "rr_r8" -> rr_r8(s, h[2])
            [] h[1] = "rst" -> rst(s, h[2])
            [] h[1] = "sub_r8" -> sub_r8(s, h[2])
            [] h[1] = "sbc_r8" -> sbc_r8(s, h[2])
            [] h[1] = "set_indirect_hl" -> set_indirect_hl(s, h[2])
            [] h[1] = "sla_r8" -> sla_r8(s, h[2])
            [] h[1] = "srl_r8" -> srl_r8(s, h[2])
            [] h[1] = "swap_r8" -> swap_r8(s, h[2])
            [] h[1] = "xor_r8" -> xor_r8(s, h[2])
            [] h[1] = "reti" -> reti(s)
            [] h[1] = "ldh_a8_a" -> ldh_a8_a(s)
            [] h[1] = "ld_a16_a" -> ld_a16_a(s)
            [] h[1] = "ldh_a_a8" -> ldh_a_a8(s)
            [] h[1] = "ld_a_a16" -> ld_a_a16(s)
            [] h[1] = "di" -> di(s)
            [] h[1] = "ei" -> ei(s)

(***************************************************************************)
(* cpu.rs: Cpu::step                                                       *)
(***************************************************************************)
\* The opcode Cpu::step decodes in context s.
FetchedByte(s) == Memory_read(s.memory, Cpu_read_register_wide(s.cpu, "PC"))

\* Whether the entry the step would decode is modelled.
StepModelled(s) ==
    Cpu_handled_interrupts(s).handled \/ s.cpu.prefixed
    \/ FetchedByte(s) \in ModelledOpcodes

\* Cpu::step stepping over a byte decode has no entry for.
Cpu_step_skipping(s) ==
    LET h == Cpu_handled_interrupts(s)
    IN  IF h.handled
        THEN [h.s EXCEPT !.cpu = Cpu_check_interrupts_enabled(@)]
        ELSE
          LET pc == Cpu_read_register_wide(s.cpu, "PC")
              byte == Memory_read(s.memory, pc)
              opcode == IF s.cpu.prefixed THEN decode_prefixed(byte) ELSE decode(byte)
              c1 == [s.cpu EXCEPT !.prefixed = FALSE]
          IN  IF opcode = None THEN [s EXCEPT !.cpu = [c1 EXCEPT !.pc = W16(pc + 1)]]
              ELSE
                LET c2 == [c1 EXCEPT
                             !.prefixed = (opcode[1].mnemonic = "PREFIX"),
                             !.pc = W16(pc + opcode[1].size_bytes)]
                    s2 == Opcode_execute(opcode[1],
                              Ctx(c2, s.memory,
                                  s.ovf \/ pc + opcode[1].size_bytes > 65535))
                IN  [s2 EXCEPT !.cpu = Cpu_check_interrupts_enabled(@)]

Cpu_step(s) ==
    LET h == Cpu_handled_interrupts(s)
    IN  IF h.handled
        THEN [h.s EXCEPT !.cpu = Cpu_check_interrupts_enabled(@)]
        ELSE
          LET pc == Cpu_read_register_wide(s.cpu, "PC")
              byte == Memory_read(s.memory, pc)
              opcode == IF s.cpu.prefixed THEN decode_prefixed(byte) ELSE decode(byte)
              c1 == [s.cpu EXCEPT !.prefixed = FALSE]
          IN  IF opcode = None THEN [s EXCEPT !.cpu = c1]
              ELSE
                LET c2 == [c1 EXCEPT
                             !.prefixed = (opcode[1].mnemonic = "PREFIX"),
                             !.pc = W16(pc + opcode[1].size_bytes)]
                    s2 == Opcode_execute(opcode[1],
                              Ctx(c2, s.memory,
                                  s.ovf \/ pc + opcode[1].size_bytes > 65535))
                IN  [s2 EXCEPT !.cpu = Cpu_check_interrupts_enabled(@)]

(***************************************************************************)
(* ppu.rs                                                                  *)
(***************************************************************************)
Paused == [tag |-> "Paused"]

FetchTileNumber == [tag |-> "FetchTileNumber"]

\* image_buffer is write-only for the core: it is kept as its most recent
\* put_pixel (None before the first one).  capacity is the sprite FIFO's
\* VecDeque capacity after with_capacity(8).
Ppu_init ==
    [dot |-> 0, sprite_buffer |-> <<>>, x_position |-> 0,
     background_fetcher |->
        [x_position |-> 0, fetch_step |-> FetchTileNumber, fifo |-> <<>>],
     sprite_fetcher |-> [fetch_step |-> Paused, fifo |-> <<>>, capacity |-> 8,
                         sprite |-> None],
     discard_count |-> 0, image_buffer |-> None]

DOTS_PER_OAM_SCAN == 80

DOTS_PER_SCANLINE == 456

SCANLINES_PER_FRAME == 153

SCANLINES_PER_VERTICAL_BLANK == 10

PIXELS_PER_SCANLINE == 160

TILE_DIMENSION == 8

TILE_BYTES == 16

ADDRESS_LCDC_REGISTER == \hFF40

ADDRESS_LCD_STATUS_REGISTER == \hFF41

ADDRESS_SCY == \hFF42

ADDRESS_SCX == \hFF43

ADDRESS_LY == \hFF44

ADDRESS_LYC == \hFF45

\* The context threaded through a PPU step: the Ppu, the Memory, whether a
\* checked +, - has overflowed, and whether the step has panicked outright.
PCtx(p, m, o, x) == [ppu |-> p, memory |-> m, ovf |-> o, panic |-> x]

\* enum PpuMode and its discriminants.
PpuModeNumber(mode) ==
    CASE mode = "HorizontalBlank" -> 0
      [] mode = "VerticalBlank" -> 1
      [] mode = "OamScan" -> 2
      [] mode = "Drawing" -> 3

\* The I/O register helpers of ppu.rs.
read_window_tile_map_area(m) ==
    IF bit(Memory_read(m, ADDRESS_LCDC_REGISTER), 6) = 0 THEN \h9800 ELSE \h9C00

read_bg_window_tile_area(m) ==
    IF bit(Memory_read(m, ADDRESS_LCDC_REGISTER), 4) = 0 THEN \h8800 ELSE \h8000

read_bg_tile_map_area(m) ==
    IF bit(Memory_read(m, ADDRESS_LCDC_REGISTER), 3) = 0 THEN \h9800 ELSE \h9C00

read_window_enabled(m) == bit(Memory_read(m, ADDRESS_LCDC_REGISTER), 5) = 1

read_ppu_mode(m) ==
    LET lcd_status_register == Memory_read(m, ADDRESS_LCD_STATUS_REGISTER)
        msb == bit(lcd_status_register, 1)
        lsb == bit(lcd_status_register, 0)
    IN  IF msb = 0 /\ lsb = 0 THEN "HorizontalBlank"
        ELSE IF msb = 0 THEN "VerticalBlank"
        ELSE IF lsb = 0 THEN "OamScan"
        ELSE "Drawing"

request_vblank_interrupt(m) ==
    Memory_write(m, ADDRESS_INTERRUPT_FLAG_REGISTER,
                 set_bits(Memory_read(m, ADDRESS_INTERRUPT_FLAG_REGISTER), 1, 1))

write_coincidence_flag(m, enabled) ==
    Memory_write(m, ADDRESS_LCD_STATUS_REGISTER,
                 set_bits(Memory_read(m, ADDRESS_LCD_STATUS_REGISTER),
                          IF enabled THEN 1 ELSE 0, 4))

write_ppu_mode(m, ppu_mode) ==
    Memory_write(m, ADDRESS_LCD_STATUS_REGISTER,
                 set_bits(Memory_read(m, ADDRESS_LCD_STATUS_REGISTER),
                          PpuModeNumber(ppu_mode), 3))

fetch_non_window_tile_data_address(tile_data_area, tile_number, ly, scy) ==
    tile_data_area + tile_number * TILE_BYTES + 2 * ((ly + scy) % 8)

\* impl From<u8> for SpriteFlags, impl From<&[u8]> for Sprite.
SpriteFlags_from(item) ==
    [priority |-> IF bit(item, 7) = 0 THEN "Object" ELSE "Background",
     y_flip |-> bit(item, 6) = 1, x_flip |-> bit(item, 5) = 1,
     palette |-> bit(item, 4) = 1]

Sprite_from(item) ==
    [y_position |-> item[1], x_position |-> item[2], tile_number |-> item[3],
     flags |-> SpriteFlags_from(item[4])]

\* Sprite::visible without the test of x_position.
Sprite_visible_any_x(sprite, ly) ==
    /\ sprite.y_position <= W8(ly + 16)
    /\ W8(sprite.y_position + 8) > W8(ly + 16)

\* Sprite::visible with SpriteHeight::Normal; && does not evaluate its right
\* operand when the left one is false.
Sprite_visible(sprite, ly) ==
    /\ sprite.x_position > 0
    /\ sprite.y_position <= W8(ly + 16)
    /\ W8(sprite.y_position + 8) > W8(ly + 16)

Sprite_visible_overflows(sprite, ly) ==
    /\ sprite.x_position > 0
    /\ \/ ly + 16 > 255
       \/ sprite.y_position <= W8(ly + 16) /\ sprite.y_position + 8 > 255

\* PixelColour is kept as its number: 0 White, 1 LightGray, 2 DarkGray,
\* 3 Black.
PixelColour_to_grayscale(colour) == <<255, 211, 169, 0>>[colour + 1]

\* impl TryFrom<u8> for PixelColour: the variant a two-bit number names.
PixelColour_try_from(item) == <<"White", "LightGray", "DarkGray", "Black">>[item + 1]

\* line_bytes_to_pixel_colours taking the high bit from the first byte.
line_bytes_to_pixel_colours_swapped(first_byte, second_byte) ==
    [i \in 1 .. TILE_DIMENSION |->
        Or8(W8(BitOf(first_byte, 8 - i) * 2), BitOf(second_byte, 8 - i))]

line_bytes_to_pixel_colours(first_byte, second_byte) ==
    [i \in 1 .. TILE_DIMENSION |->
        Or8(W8(BitOf(second_byte, 8 - i) * 2), BitOf(first_byte, 8 - i))]

Pixel(colour, palette, priority) ==
    [colour |-> colour, palette |-> palette, priority |-> priority]

\* Pixel::mix without the test of the sprite's priority.
Pixel_mix_sprite_above(background_pixel, sprite_pixel) ==
    IF sprite_pixel.colour = 0 THEN background_pixel ELSE sprite_pixel

Pixel_mix(background_pixel, sprite_pixel) ==
    IF sprite_pixel.colour = 0 THEN background_pixel
    ELSE IF sprite_pixel.priority = "Background"
    THEN IF background_pixel.colour = 0 THEN sprite_pixel ELSE background_pixel
    ELSE sprite_pixel

\* Memory::read_range.
Memory_read_range(m, address, len) == [i \in 1 .. len |-> ArrayGet(m.ram, address + i - 1)]

\* sort_by(|s1, s2| s2.x_position.cmp(&s1.x_position)): a stable sort into
\* descending x order, as an insertion of each sprite after the sprites with
\* an x at least as large.
\* The sort into ascending x order.
RECURSIVE SortSprites_ascending(_)
SortSprites_ascending(sprites) ==
    IF sprites = <<>> THEN <<>>
    ELSE LET sorted == SortSprites_ascending(SubSeq(sprites, 1, Len(sprites) - 1))
             s == sprites[Len(sprites)]
             n == Cardinality({i \in 1 .. Len(sorted) :
                                  sorted[i].x_position <= s.x_position})
         IN  SubSeq(sorted, 1, n) \o <<s>> \o SubSeq(sorted, n + 1, Len(sorted))

RECURSIVE SortSprites(_)
SortSprites(sprites) ==
    IF sprites = <<>> THEN <<>>
    ELSE LET sorted == SortSprites(SubSeq(sprites, 1, Len(sprites) - 1))
             s == sprites[Len(sprites)]
             n == Cardinality({i \in 1 .. Len(sorted) :
                                  sorted[i].x_position >= s.x_position})
         IN  SubSeq(sorted, 1, n) \o <<s>> \o SubSeq(sorted, n + 1, Len(sorted))

ADDRESS_WY == \hFF4A

ADDRESS_WX == \hFF4B

Push(pixel_colours) == [tag |-> "Push", pixel_colours |-> pixel_colours]

FetchTileLow(tile_number) == [tag |-> "FetchTileLow", tile_number |-> tile_number]

FetchTileHigh(address, tile_data_low) ==
    [tag |-> "FetchTileHigh", address |-> address, tile_data_low |-> tile_data_low]

\* BackgroundFetcher::step: the fetcher it leaves and whether wx - 7
\* overflowed.  Ppu::step calls it without the scanline position; it only
\* enters the window test, the Ppu's x_position is passed.
BackgroundFetcher_step(bf, m, scanline_x_position) ==
    LET ly == Memory_read(m, ADDRESS_LY)
        scy == Memory_read(m, ADDRESS_SCY)
        scx == Memory_read(m, ADDRESS_SCX)
        wy == Memory_read(m, ADDRESS_WY)
        wx == Memory_read(m, ADDRESS_WX)
        tile_data_area == read_bg_window_tile_area(m)
        step == bf.fetch_step
    IN  CASE step.tag = "Paused" -> [bf |-> bf, ovf |-> FALSE]
          [] step.tag = "FetchTileNumber" ->
                LET is_window_tile == /\ read_window_enabled(m)
                                      /\ scanline_x_position >= W16(wx - 7)
                                      /\ ly >= wy
                    tile_map_area == IF is_window_tile THEN read_window_tile_map_area(m)
                                     ELSE read_bg_tile_map_area(m)
                    y_offset == (32 * (((ly + scy) % 256) \div 8)) % 1024
                    scx_offset == scx % 32
                    x_offset == (bf.x_position + scx_offset) % 1024
                    tile_number == Memory_read(m, tile_map_area + x_offset + y_offset)
                IN  [bf |-> [bf EXCEPT !.fetch_step = FetchTileLow(tile_number)],
                     ovf |-> read_window_enabled(m) /\ wx < 7]
          [] step.tag = "FetchTileLow" ->
                LET address == fetch_non_window_tile_data_address(
                                   tile_data_area, step.tile_number, ly, scy)
                IN  [bf |-> [bf EXCEPT !.fetch_step =
                                FetchTileHigh(address, Memory_read(m, address))],
                     ovf |-> FALSE]
          [] step.tag = "FetchTileHigh" ->
                [bf |-> [bf EXCEPT !.fetch_step =
                            Push(line_bytes_to_pixel_colours(
                                     step.tile_data_low,
                                     Memory_read(m, step.address + 1)))],
                 ovf |-> FALSE]
          [] step.tag = "Push" ->
                IF bf.fifo = <<>>
                THEN [bf |-> [bf EXCEPT
                                !.x_position = (@ + 1) % 32,
                                !.fifo = [i \in 1 .. TILE_DIMENSION |->
                                             Pixel(step.pixel_colours[i], "Bgp",
                                                   "Background")],
                                !.fetch_step = FetchTileNumber],
                      ovf |-> FALSE]
                ELSE [bf |-> bf, ovf |-> FALSE]

Min(x, y) == IF x <= y THEN x ELSE y

\* SpriteFetcher::step: the fetcher it leaves, whether sprite.x_position -
\* ppu_x_position overflowed, and whether an expect failed.
SpriteFetcher_step(sf, m, ppu_x_position) ==
    LET ly == Memory_read(m, ADDRESS_LY)
        scy == Memory_read(m, ADDRESS_SCY)
        tile_data_area == \h8000
        step == sf.fetch_step
    IN  CASE step.tag = "Paused" -> [sf |-> sf, ovf |-> FALSE, panic |-> FALSE]
          [] step.tag = "FetchTileNumber" ->
                IF sf.sprite = None THEN [sf |-> sf, ovf |-> FALSE, panic |-> TRUE]
                ELSE [sf |-> [sf EXCEPT !.fetch_step =
                                FetchTileLow(sf.sprite[1].tile_number)],
                      ovf |-> FALSE, panic |-> FALSE]
          [] step.tag = "FetchTileLow" ->
                LET address == fetch_non_window_tile_data_address(
                                   tile_data_area, step.tile_number, ly, scy)
                IN  [sf |-> [sf EXCEPT !.fetch_step =
                                FetchTileHigh(address, Memory_read(m, address))],
                     ovf |-> FALSE, panic |-> FALSE]
          [] step.tag = "FetchTileHigh" ->
                [sf |-> [sf EXCEPT !.fetch_step =
                            Push(line_bytes_to_pixel_colours(
                                     step.tile_data_low,
                                     Memory_read(m, step.address + 1)))],
                 ovf |-> FALSE, panic |-> FALSE]
          [] step.tag = "Push" ->
                IF sf.sprite = None THEN [sf |-> sf, ovf |-> FALSE, panic |-> TRUE]
                ELSE
                  LET sprite == sf.sprite[1]
                      visible_pixel_count == W8(sprite.x_position - ppu_x_position)
                      taken == Min(Min(TILE_DIMENSION, visible_pixel_count),
                                   sf.capacity - Len(sf.fifo))
                      pixels == [i \in 1 .. taken |->
                                    Pixel(step.pixel_colours[i], "Bgp",
                                          sprite.flags.priority)]
                  IN  [sf |-> [sf EXCEPT !.fifo = @ \o pixels, !.fetch_step = Paused],
                       ovf |-> sprite.x_position < ppu_x_position, panic |-> FALSE]

(***************************************************************************)
(* ppu.rs: Ppu::step, one operator per arm of its match on the mode        *)
(***************************************************************************)
\* The OAM scan arm pushing every visible sprite, whatever the buffer holds.
Ppu_step_OamScan_unbounded(p, m, ly) ==
    LET byte_offset == (p.dot \div 2) * 4
        sprite_address == W16(\hFE00 + W16(byte_offset))
        sprite == Sprite_from(Memory_read_range(m, sprite_address, 4))
        scanned == p.dot % 2 = 0
        p1 == IF scanned /\ Sprite_visible(sprite, ly)
              THEN [p EXCEPT !.sprite_buffer = Append(@, sprite)]
              ELSE p
        p2 == [p1 EXCEPT !.dot = @ + 1]
        ovf == scanned /\ (\hFE00 + W16(byte_offset) > 65535
                           \/ (Len(p.sprite_buffer) < 10
                               /\ Sprite_visible_overflows(sprite, ly)))
        panic == scanned /\ sprite_address + 4 > 65536
    IN  IF p2.dot = DOTS_PER_OAM_SCAN
        THEN PCtx([p2 EXCEPT !.sprite_buffer = SortSprites(@),
                             !.discard_count = Memory_read(m, ADDRESS_SCX) % 8],
                  write_ppu_mode(m, "Drawing"), ovf, panic)
        ELSE PCtx(p2, m, ovf, panic)

\* The OAM scan arm leaving no scroll pixels to discard.
Ppu_step_OamScan_no_discard(p, m, ly) ==
    LET byte_offset == (p.dot \div 2) * 4
        sprite_address == W16(\hFE00 + W16(byte_offset))
        sprite == Sprite_from(Memory_read_range(m, sprite_address, 4))
        scanned == p.dot % 2 = 0
        p1 == IF scanned /\ Len(p.sprite_buffer) < 10 /\ Sprite_visible(sprite, ly)
              THEN [p EXCEPT !.sprite_buffer = Append(@, sprite)]
              ELSE p
        p2 == [p1 EXCEPT !.dot = @ + 1]
        ovf == scanned /\ (\hFE00 + W16(byte_offset) > 65535
                           \/ (Len(p.sprite_buffer) < 10
                               /\ Sprite_visible_overflows(sprite, ly)))
        panic == scanned /\ sprite_address + 4 > 65536
    IN  IF p2.dot = DOTS_PER_OAM_SCAN
        THEN PCtx([p2 EXCEPT !.sprite_buffer = SortSprites(@),
                             !.discard_count = 0],
                  write_ppu_mode(m, "Drawing"), ovf, panic)
        ELSE PCtx(p2, m, ovf, panic)

Ppu_step_OamScan(p, m, ly) ==
    LET byte_offset == (p.dot \div 2) * 4
        sprite_address == W16(\hFE00 + W16(byte_offset))
        sprite == Sprite_from(Memory_read_range(m, sprite_address, 4))
        scanned == p.dot % 2 = 0
        p1 == IF scanned /\ Len(p.sprite_buffer) < 10 /\ Sprite_visible(sprite, ly)
              THEN [p EXCEPT !.sprite_buffer = Append(@, sprite)]
              ELSE p
        p2 == [p1 EXCEPT !.dot = @ + 1]
        ovf == scanned /\ (\hFE00 + W16(byte_offset) > 65535
                           \/ (Len(p.sprite_buffer) < 10
                               /\ Sprite_visible_overflows(sprite, ly)))
        panic == scanned /\ sprite_address + 4 > 65536
    IN  IF p2.dot = DOTS_PER_OAM_SCAN
        THEN PCtx([p2 EXCEPT !.sprite_buffer = SortSprites(@),
                             !.discard_count = Memory_read(m, ADDRESS_SCX) % 8],
                  write_ppu_mode(m, "Drawing"), ovf, panic)
        ELSE PCtx(p2, m, ovf, panic)

Ppu_step_Drawing(p, m, ly) ==
    LET fetch_sprite ==
            /\ p.sprite_fetcher.fetch_step.tag = "Paused"
            /\ \E i \in 1 .. Len(p.sprite_buffer) :
                  p.sprite_buffer[i].x_position <= W8(p.x_position + 8)
        p1 == IF fetch_sprite
              THEN [p EXCEPT
                      !.background_fetcher.fetch_step = Paused,
                      !.sprite_fetcher.sprite = Some(p.sprite_buffer[Len(p.sprite_buffer)]),
                      !.sprite_buffer = SubSeq(@, 1, Len(@) - 1),
                      !.sprite_fetcher.fetch_step = FetchTileNumber]
              ELSE p
        b == BackgroundFetcher_step(p1.background_fetcher, m, p1.x_position)
        f == SpriteFetcher_step(p1.sprite_fetcher, m, p1.x_position)
        p2 == [p1 EXCEPT !.background_fetcher = b.bf, !.sprite_fetcher = f.sf]
        ovf == b.ovf \/ f.ovf \/ p.x_position + 8 > 255
    IN  IF p2.sprite_fetcher.fetch_step.tag # "Paused"
        THEN PCtx([p2 EXCEPT !.dot = @ + 1], m, ovf, f.panic)
        ELSE
          LET p3 == IF p2.background_fetcher.fetch_step.tag = "Paused"
                    THEN [p2 EXCEPT !.background_fetcher.fetch_step = FetchTileNumber]
                    ELSE p2
          IN  IF p3.background_fetcher.fifo = <<>>
              THEN PCtx([p3 EXCEPT !.dot = @ + 1], m, ovf, f.panic)
              ELSE
                LET background_pixel == Head(p3.background_fetcher.fifo)
                    p4 == [p3 EXCEPT !.background_fetcher.fifo = Tail(@)]
                IN  IF p4.discard_count > 0
                    THEN PCtx([p4 EXCEPT !.discard_count = @ - 1, !.dot = @ + 1],
                              m, ovf, f.panic)
                    ELSE
                      LET mixed_pixel ==
                              IF p4.sprite_fetcher.fifo = <<>> THEN background_pixel
                              ELSE Pixel_mix(background_pixel,
                                             Head(p4.sprite_fetcher.fifo))
                          p5 == [p4 EXCEPT
                                   !.sprite_fetcher.fifo =
                                        IF @ = <<>> THEN @ ELSE Tail(@),
                                   !.image_buffer =
                                        Some([x |-> p4.x_position, y |-> ly,
                                              luma |-> PixelColour_to_grayscale(
                                                           mixed_pixel.colour)]),
                                   !.x_position = W8(@ + 1)]
                          panic == f.panic \/ ly >= 144 \/ p4.x_position >= 160
                      IN  IF p5.x_position = PIXELS_PER_SCANLINE
                          THEN PCtx([p5 EXCEPT
                                       !.x_position = 0,
                                       !.sprite_buffer = <<>>,
                                       !.background_fetcher.x_position = 0,
                                       !.background_fetcher.fetch_step = FetchTileNumber,
                                       !.background_fetcher.fifo = <<>>,
                                       !.sprite_fetcher.fifo = <<>>,
                                       !.dot = @ + 1],
                                    write_ppu_mode(m, "HorizontalBlank"), ovf, panic)
                          ELSE PCtx([p5 EXCEPT !.dot = @ + 1], m,
                                    ovf \/ p4.x_position + 1 > 255, panic)

Ppu_step_HorizontalBlank(p, m, ly) ==
    IF p.dot + 1 >= DOTS_PER_SCANLINE
    THEN PCtx([p EXCEPT !.dot = 0],
              write_ppu_mode(Memory_write(m, ADDRESS_LY, W8(ly + 1)),
                             IF ly >= SCANLINES_PER_FRAME - SCANLINES_PER_VERTICAL_BLANK
                             THEN "VerticalBlank" ELSE "OamScan"),
              ly + 1 > 255, FALSE)
    ELSE PCtx([p EXCEPT !.dot = @ + 1], m, FALSE, FALSE)

\* The VerticalBlank arm without the wrap of LY after line 153.
Ppu_step_VerticalBlank_no_wrap(p, m, ly) ==
    LET m1 == IF p.dot = 0 THEN request_vblank_interrupt(m) ELSE m
    IN  IF p.dot + 1 >= DOTS_PER_SCANLINE
        THEN PCtx([p EXCEPT !.dot = 0],
                  Memory_write(m1, ADDRESS_LY, W8(ly + 1)), ly + 1 > 255, FALSE)
        ELSE PCtx([p EXCEPT !.dot = @ + 1], m1, FALSE, FALSE)

Ppu_step_VerticalBlank(p, m, ly) ==
    LET m1 == IF p.dot = 0 THEN request_vblank_interrupt(m) ELSE m
    IN  IF p.dot + 1 >= DOTS_PER_SCANLINE
        THEN IF W8(ly + 1) > SCANLINES_PER_FRAME
             THEN PCtx([p EXCEPT !.dot = 0],
                       Memory_write(write_ppu_mode(m1, "OamScan"), ADDRESS_LY, 0),
                       ly + 1 > 255, FALSE)
             ELSE PCtx([p EXCEPT !.dot = 0],
                       Memory_write(m1, ADDRESS_LY, W8(ly + 1)), ly + 1 > 255, FALSE)
        ELSE PCtx([p EXCEPT !.dot = @ + 1], m1, FALSE, FALSE)

Ppu_step(p, m) ==
    LET ppu_mode == read_ppu_mode(m)
        ly == Memory_read(m, ADDRESS_LY)
        lyc == Memory_read(m, ADDRESS_LYC)
        m1 == write_coincidence_flag(m, ly = lyc)
    IN  CASE ppu_mode = "OamScan" -> Ppu_step_OamScan(p, m1, ly)
          [] ppu_mode = "Drawing" -> Ppu_step_Drawing(p, m1, ly)
          [] ppu_mode = "HorizontalBlank" -> Ppu_step_HorizontalBlank(p, m1, ly)
          [] ppu_mode = "VerticalBlank" -> Ppu_step_VerticalBlank(p, m1, ly)

(***************************************************************************)
(* History variables                                                       *)
(***************************************************************************)
HistInit ==
    [writes |-> 0, dma_ticks |-> 0, dma_page |-> 0, boot_off |-> FALSE,
     cpu_steps |-> 0, trace |-> <<>>, vblank_requests |-> 0, dots |-> 0,
     machine_steps |-> 0, vblank_raised |-> 0]

(***************************************************************************)
(* SpecMemory: the address space on its own.  Its callers (the CPU's       *)
(* stores, the PPU's register writes, the driver's memory.step) are the    *)
(* environment: any interleaving of writes and steps.                      *)
(***************************************************************************)
\* Writes performed in one run of SpecMemory.
MaxWrites == 2

\* memory.step calls counted after a transfer was started.
MaxDmaTicks == 162

\* Addresses and values the environment writes.
WriteAddresses == {ADDRESS_DMA, ADDRESS_BOOT_DISABLE, \hFF80, \hC000}

WriteValues == {0, 1, \hC0}

\* Addresses probed by reads: below and above the boot ROM's end, video and
\* work RAM, OAM, I/O registers, both ends of high RAM, IE.
ReadAddresses ==
    {0, \hFF, \h100, \h8000, \hC000, \hFE00, ADDRESS_DMA, ADDRESS_BOOT_DISABLE,
     \hFF7F, \hFF80, \hFFFE, \hFFFF}

\* Memory starts as Memory::init leaves it, or loaded: a boot ROM, a
\* cartridge image in page 0, data in work RAM page 0xC0 and in OAM, each
\* byte non-zero and different from its neighbours.
PatternByte(a) == (a % 251) + 1

TestRam ==
    [a \in (0 .. 159) \cup (\hC000 .. \hC09F) \cup (\hFE00 .. \hFE9F)
        |-> PatternByte(a + (a \div 256))]

TestBootRom == [a \in 0 .. 255 |-> PatternByte(a + 100)]

MemInit ==
    /\ memory \in {Memory_init,
                    [Memory_init EXCEPT !.ram = TestRam, !.bootstrap_rom = TestBootRom]}
    /\ cpu = Cpu_init
    /\ ppu = Ppu_init
    /\ overflow_checks = FALSE
    /\ panicked = FALSE
    /\ op = [name |-> "init"]
    /\ hist = HistInit

\* Whether Memory::write stores (does not drop) a write to address.
WriteAccepted(m, address) ==
    ~(IsDmaActive(m) /\ (address < \hFF80 \/ address > \hFFFE))

MemWriteAct(address, value) ==
    /\ hist.writes < MaxWrites
    /\ memory' = Memory_write(memory, address, value)
    /\ op' = [name |-> "write", address |-> address, value |-> value]
    /\ hist' = [hist EXCEPT
                  !.writes = @ + 1,
                  !.dma_ticks = IF WriteAccepted(memory, address) /\ address = ADDRESS_DMA
                                THEN 0 ELSE @,
                  !.dma_page = IF WriteAccepted(memory, address) /\ address = ADDRESS_DMA
                               THEN value ELSE @,
                  !.boot_off = @ \/ (WriteAccepted(memory, address)
                                     /\ address = ADDRESS_BOOT_DISABLE /\ value # 0)]
    /\ UNCHANGED <<cpu, ppu, overflow_checks, panicked>>

MemStepAct ==
    /\ hist.dma_ticks < MaxDmaTicks
    /\ memory' = Memory_step(memory)
    /\ op' = [name |-> "step"]
    /\ hist' = [hist EXCEPT !.dma_ticks = @ + 1]
    /\ UNCHANGED <<cpu, ppu, overflow_checks, panicked>>

MemNext ==
    \/ \E address \in WriteAddresses, value \in WriteValues : MemWriteAct(address, value)
    \/ MemStepAct

SpecMemory == MemInit /\ [][MemNext]_vars

\* C1: with DMA inactive, a write of v to 0xFF46 starts a transfer from page
\* v; the i-th memory step after it (i = 0..159, counted by hist.dma_ticks)
\* copies ram[v*0x100 + i] to ram[0xFE00 + i] and changes nothing else in
\* ram; DMA is active after steps 0..158 and inactive after step 159; a
\* memory step taken while DMA is inactive changes nothing.
C1_DmaTransfer ==
    [][/\ (op'.name = "write" /\ op'.address = ADDRESS_DMA /\ ~IsDmaActive(memory))
            => /\ IsDmaActive(memory')
               /\ hist'.dma_ticks = 0
               /\ hist'.dma_page = op'.value
       /\ (op'.name = "step" /\ IsDmaActive(memory))
            => LET i == hist.dma_ticks
                   v == hist.dma_page
               IN /\ i \in 0 .. 159
                  /\ memory'.ram = ArraySet(memory.ram, \hFE00 + i,
                                            ArrayGet(memory.ram, v * 256 + i))
                  /\ IsDmaActive(memory') <=> (i < 159)
       /\ (op'.name = "step" /\ ~IsDmaActive(memory)) => memory' = memory
      ]_vars

\* C1 witness: a transfer from page 0xC0 of non-zero data has run its 160
\* steps and one more: DMA is inactive and OAM equals the source page.
C1_Witness ==
    /\ op.name = "step"
    /\ hist.dma_page = \hC0
    /\ hist.dma_ticks = 161
    /\ ~IsDmaActive(memory)
    /\ ArrayGet(memory.ram, \hC09F) # 0
    /\ \A i \in 0 .. 159 :
          ArrayGet(memory.ram, \hFE00 + i) = ArrayGet(memory.ram, \hC000 + i)

\* C2: while DMA is active, read(addr) returns last_transferred_byte for addr
\* outside [0xFF80, 0xFFFE] and the stored byte for addr inside it.
C2_ReadMaskedDuringDma ==
    IsDmaActive(memory) =>
        \A address \in ReadAddresses :
            Memory_read(memory, address) =
                IF address < \hFF80 \/ address > \hFFFE
                THEN memory.dma_state.last_transferred_byte
                ELSE ArrayGet(memory.ram, address)

\* C3: while DMA is active, a write outside [0xFF80, 0xFFFE] leaves ram and
\* the DMA state unchanged (a write to 0xFF46 neither stores nor restarts),
\* and a write inside [0xFF80, 0xFFFE] is stored.
C3_WriteDuringDma ==
    [][(op'.name = "write" /\ IsDmaActive(memory))
          => IF op'.address < \hFF80 \/ op'.address > \hFFFE
             THEN memory' = memory
             ELSE /\ ArrayGet(memory'.ram, op'.address) = op'.value
                  /\ memory'.dma_state = memory.dma_state
      ]_vars

\* C3 witness: a write of another page number to 0xFF46 was made in the
\* middle of a transfer from page 0xC0, and the transfer goes on.
C3_Witness ==
    /\ op.name = "write"
    /\ op.address = ADDRESS_DMA
    /\ op.value # \hC0
    /\ IsDmaActive(memory)
    /\ memory.dma_state.cycles > 0
    /\ memory.dma_state.src_addr = \hC000
    /\ ArrayGet(memory.ram, ADDRESS_DMA) = \hC0

\* C4: once a non-zero value has been written to 0xFF50, every later read
\* below 0x0100 returns ram[addr], never the boot ROM's byte.
C4_BootOverlayStaysOff ==
    hist.boot_off =>
        \A address \in 0 .. 255 :
            Memory_read(memory, address) = ArrayGet(memory.ram, address)

(***************************************************************************)
(* SpecCpu: the CPU stepping over memory.  The PPU, which the driver steps *)
(* between two CPU steps, is the environment: it may raise the VBlank      *)
(* request.  The run starts where set-up code (or main.rs's doctor mode,   *)
(* which loads the registers directly and writes 1 to 0xFF50) has left     *)
(* the machine: boot overlay off, a program at ProgramBase, a RETI at each *)
(* interrupt vector, two bytes on the stack.                               *)
(***************************************************************************)
\* CPU steps performed in one run.
MaxCpuSteps == 5

\* VBlank requests raised by the environment in one run.
MaxVblankRequests == 1

ProgramBase == \h1000

StackBase == \hD000

\* Instruction sequences placed at ProgramBase (zeros, i.e. NOPs, follow).
ScenarioPrograms ==
    {<<\hFB, \h00, \h00>>,            \* EI; NOP; NOP
     <<\hFB, \hF3, \h00>>,            \* EI; DI; NOP
     <<\hFB, \hFB, \h00>>,            \* EI; EI; NOP
     <<\hF3, \hFB, \h3C>>,            \* DI; EI; INC A
     <<\hF1, \hF5, \hC1>>,            \* POP AF; PUSH AF; POP BC
     <<\h3E, \h0F, \h3C, \h88>>,      \* LD A,0x0F; INC A; ADC A,B
     <<\hCB, \h7C, \hD3>>,            \* PREFIX; BIT 7,H; (undefined)
     <<\h37, \h18, \hFE>>,            \* SCF (no handler); JR -2
     <<\h3E, \h01, \hE0, \h0F>>,      \* LD A,1; LDH [0x0F],A
     <<\hCD, \h40, \h00>>,            \* CALL 0x0040 (a RETI)
     <<\h3E, \hC0, \hFB, \hE0, \h46>>} \* LD A,0xC0; EI; LDH [0x46],A (starts DMA)

\* Every modelled entry of decode and every entry of decode_prefixed, alone;
\* a run of one of these is two steps long (a prefix and its operation).
SingleInstructionPrograms ==
    {<<b>> : b \in ModelledOpcodes} \cup {<<\hCB, b>> : b \in 0 .. 255}

\* The ram image of a program: the program, the vectors, the stack, IE, IF.
ProgramRam(program, ie, if) ==
    LET image == [a \in (ProgramBase .. ProgramBase + Len(program) - 1)
                        \cup {\h40, \h48, \h50, \h58, \h60}
                        \cup {StackBase, StackBase + 1, ADDRESS_BOOT_DISABLE,
                              ADDRESS_INTERRUPT_ENABLE_REGISTER,
                              ADDRESS_INTERRUPT_FLAG_REGISTER}
                  |-> CASE a \in ProgramBase .. ProgramBase + Len(program) - 1
                              -> program[a - ProgramBase + 1]
                        [] a \in {\h40, \h48, \h50, \h58, \h60} -> \hD9
                        [] a = StackBase -> \hFF
                        [] a = StackBase + 1 -> \hA5
                        [] a = ADDRESS_BOOT_DISABLE -> 1
                        [] a = ADDRESS_INTERRUPT_ENABLE_REGISTER -> ie
                        [] a = ADDRESS_INTERRUPT_FLAG_REGISTER -> if]
    IN  [a \in {x \in DOMAIN image : image[x] # 0} |-> image[a]]

CpuInit ==
    /\ ppu = Ppu_init
    /\ overflow_checks \in BOOLEAN
    /\ panicked = FALSE
    /\ op = [name |-> "init"]
    /\ \/ \E program \in ScenarioPrograms,
             ie \in {\h00, \h01, \h1F},
             if \in {\h00, \h01, \h02, \h03, \h04, \h08, \h10},
             sp \in {\hFFFE, StackBase, \h0001},
             ime \in BOOLEAN :
            /\ memory = [Memory_init EXCEPT !.ram = ProgramRam(program, ie, if)]
            /\ cpu = [Cpu_init EXCEPT !.pc = ProgramBase, !.sp = sp, !.ime = ime]
            /\ hist = HistInit
       \/ \E program \in SingleInstructionPrograms,
             a \in {\h0F, \hFF},
             r \in {\h01, \hC0},
             f \in {\h00, \hF0} :
            /\ memory = [Memory_init EXCEPT !.ram = ProgramRam(program, 0, 0)]
            /\ cpu = [Cpu_init EXCEPT !.pc = ProgramBase, !.sp = StackBase,
                                      !.ime = FALSE, !.a = a, !.f = f, !.b = r,
                                      !.c = r, !.d = r, !.e = r, !.h = r, !.l = r]
            /\ hist = [HistInit EXCEPT !.cpu_steps = MaxCpuSteps - 2]

\* What the step about to be taken does: service an interrupt, stall on a
\* byte decode has no entry for, or execute an opcode.
StepKind(s) ==
    IF Cpu_handled_interrupts(s).handled THEN "interrupt"
    ELSE IF ~s.cpu.prefixed /\ decode(FetchedByte(s)) = None THEN "undefined"
    ELSE "opcode"

CpuStepAct ==
    /\ ~panicked
    /\ hist.cpu_steps < MaxCpuSteps
    /\ StepModelled(Ctx(cpu, memory, FALSE))
    /\ \E s1 \in {Cpu_step(Ctx(cpu, memory, FALSE))},
          kind \in {StepKind(Ctx(cpu, memory, FALSE))} :
         LET byte == IF kind = "interrupt" THEN 0 - 1
                     ELSE FetchedByte(Ctx(cpu, memory, FALSE))
         IN  IF s1.ovf /\ overflow_checks
             THEN /\ panicked' = TRUE
                  /\ op' = [name |-> "cpu_panic", kind |-> kind, byte |-> byte,
                            prefixed |-> cpu.prefixed]
                  /\ hist' = [hist EXCEPT !.cpu_steps = @ + 1]
                  /\ UNCHANGED <<cpu, memory>>
             ELSE /\ cpu' = s1.cpu
                  /\ memory' = s1.memory
                  /\ op' = [name |-> "cpu_step", kind |-> kind, byte |-> byte,
                            prefixed |-> cpu.prefixed]
                  /\ hist' = [hist EXCEPT
                                !.cpu_steps = @ + 1,
                                !.trace = Append(@, [kind |-> kind, byte |-> byte,
                                                     prefixed |-> cpu.prefixed,
                                                     entry_ime |-> cpu.ime,
                                                     ime |-> s1.cpu.ime])]
                  /\ UNCHANGED panicked
    /\ UNCHANGED <<ppu, overflow_checks>>

\* The PPU's request_vblank_interrupt, between two CPU steps.
RequestVblankAct ==
    /\ ~panicked
    /\ hist.vblank_requests < MaxVblankRequests
    /\ memory' = request_vblank_interrupt(memory)
    /\ op' = [name |-> "request_vblank_interrupt"]
    /\ hist' = [hist EXCEPT !.vblank_requests = @ + 1]
    /\ UNCHANGED <<cpu, ppu, overflow_checks, panicked>>

CpuNext == CpuStepAct \/ RequestVblankAct

SpecCpu == CpuInit /\ [][CpuNext]_vars

\* The IE and IF registers as the CPU reads them.
IE == Memory_read(memory, ADDRESS_INTERRUPT_ENABLE_REGISTER)

IF_ == Memory_read(memory, ADDRESS_INTERRUPT_FLAG_REGISTER)

\* The interrupt sources that are both enabled and pending.
PendingSources == {k \in 0 .. 4 : BitOf(IE, k) = 1 /\ BitOf(IF_, k) = 1}

\* C5: with IME on, DMA inactive and VBlank both enabled in IE and pending in
\* IF (and room for two bytes below SP), one CPU step executes no instruction
\* and leaves IME off, bit 0 of IF cleared, the old PC's high byte at SP-1
\* and low byte at SP-2, SP lowered by 2 and PC = 0x0040.
C5_VblankDispatch ==
    [][(op'.name \in {"cpu_step", "cpu_panic"} /\ cpu.ime /\ ~IsDmaActive(memory)
        /\ 0 \in PendingSources /\ cpu.sp >= 2)
       => /\ op'.name = "cpu_step"
          /\ op'.kind = "interrupt"
          /\ ~cpu'.ime
          /\ Memory_read(memory', ADDRESS_INTERRUPT_FLAG_REGISTER) = IF_ - 1
          /\ Memory_read(memory', cpu.sp - 1) = cpu.pc \div 256
          /\ Memory_read(memory', cpu.sp - 2) = cpu.pc % 256
          /\ cpu'.sp = cpu.sp - 2
          /\ cpu'.pc = \h40]_vars

\* C6: with IME on and DMA inactive, when source k in 0..4 is the lowest bit
\* set in both IE and IF, the CPU step services source k: PC becomes
\* 0x40 + 8*k and IF loses bit k and keeps its other bits.
C6_InterruptPriority ==
    [][(op'.name \in {"cpu_step", "cpu_panic"} /\ cpu.ime /\ ~IsDmaActive(memory)
        /\ PendingSources # {} /\ cpu.sp >= 2)
       => LET k == CHOOSE x \in PendingSources : \A y \in PendingSources : x <= y
          IN  /\ op'.name = "cpu_step"
              /\ op'.kind = "interrupt"
              /\ cpu'.pc = \h40 + 8 * k
              /\ Memory_read(memory', ADDRESS_INTERRUPT_FLAG_REGISTER)
                    = IF_ - 2 ^ k]_vars

\* Whether trace entry e is the execution of unprefixed opcode byte.
Executed(e, byte) == e.kind = "opcode" /\ ~e.prefixed /\ e.byte = byte

\* C7: EI takes effect one instruction late.  For every step i of the run
\* that executed EI with IME off: IME is still off when that step returns
\* and when the next step is dispatched; if the next step executes NOP (or
\* any opcode other than EI, DI, RETI), IME is on when it returns and when
\* the step after it is dispatched; if the next step executes DI, IME is off
\* when DI returns and stays off in every later step until another EI or
\* RETI is executed.
C7_EiLatency ==
    \A i \in 1 .. Len(hist.trace) :
        (Executed(hist.trace[i], \hFB) /\ ~hist.trace[i].entry_ime) =>
            /\ ~hist.trace[i].ime
            /\ i + 1 <= Len(hist.trace) =>
                  /\ ~hist.trace[i + 1].entry_ime
                  /\ (hist.trace[i + 1].kind = "opcode"
                      /\ ~Executed(hist.trace[i + 1], \hFB)
                      /\ ~Executed(hist.trace[i + 1], \hF3)
                      /\ ~Executed(hist.trace[i + 1], \hD9)) =>
                        /\ hist.trace[i + 1].ime
                        /\ i + 2 <= Len(hist.trace) => hist.trace[i + 2].entry_ime
                  /\ Executed(hist.trace[i + 1], \hF3) =>
                        \A j \in i + 1 .. Len(hist.trace) :
                            (\A n \in i + 2 .. j :
                                ~Executed(hist.trace[n], \hFB)
                                /\ ~Executed(hist.trace[n], \hD9))
                            => ~hist.trace[j].ime

\* C7 witness: EI was executed with IME off, then NOP, and the third step,
\* dispatched with IME on, serviced an interrupt.
C7_Witness ==
    /\ Len(hist.trace) = 3
    /\ Executed(hist.trace[1], \hFB) /\ ~hist.trace[1].entry_ime
    /\ Executed(hist.trace[2], \h00)
    /\ hist.trace[3].entry_ime /\ hist.trace[3].kind = "interrupt"

\* C8: the low nibble of F is zero in every reachable state.
C8_FlagLowNibbleZero == And8(cpu.f, \h0F) = 0

\* C8 witness: POP AF has just loaded AF from a stack holding 0xFF, 0xA5.
C8_Witness ==
    /\ op.name = "cpu_step" /\ op.kind = "opcode" /\ ~op.prefixed /\ op.byte = \hF1
    /\ cpu.sp = StackBase + 2
    /\ ArrayGet(memory.ram, StackBase) = \hFF
    /\ cpu.a = \hA5 /\ cpu.f = \hF0

(***************************************************************************)
(* SpecPpu: the PPU stepping on its own over a memory nothing else writes, *)
(* from Ppu::init and Memory::init (every register 0: mode 0, LY 0), or    *)
(* from a memory in which set-up code has left sprites, tiles and a scroll.*)
(***************************************************************************)
\* Ppu::step calls in one run: one frame of 154 * 456 dots and the start of
\* the next.
MaxDots == 70700

\* OAM entries (y, x, tile, flags), tile rows and SCX of the loaded memory.
PpuTestRam ==
    LET image == [a \in (\hFE00 .. \hFE0F) \cup (\h8000 .. \h801F)
                        \cup {ADDRESS_SCX, \h9800, \h9801}
                  |-> CASE a \in \hFE00 .. \hFE0F ->
                              <<16, 8, 1, 0,     20, 12, 1, 128,
                                100, 90, 0, 0,   16, 200, 1, 0>>[a - \hFE00 + 1]
                        [] a \in \h8000 .. \h801F -> PatternByte(a)
                        [] a = ADDRESS_SCX -> 3
                        [] a \in {\h9800, \h9801} -> 1]
    IN  [a \in {x \in DOMAIN image : image[x] # 0} |-> image[a]]

PpuInit ==
    /\ memory \in {Memory_init, [Memory_init EXCEPT !.ram = PpuTestRam]}
    /\ cpu = Cpu_init
    /\ ppu = Ppu_init
    /\ overflow_checks = TRUE
    /\ panicked = FALSE
    /\ op = [name |-> "init"]
    /\ hist = HistInit

PpuStepAct ==
    /\ ~panicked
    /\ hist.dots < MaxDots
    /\ \E s \in {Ppu_step(ppu, memory)} :
           IF s.panic \/ (s.ovf /\ overflow_checks)
           THEN /\ panicked' = TRUE
                /\ op' = [name |-> "ppu_panic"]
                /\ UNCHANGED <<ppu, memory>>
           ELSE /\ ppu' = s.ppu
                /\ memory' = s.memory
                /\ op' = [name |-> "ppu_step", mode |-> read_ppu_mode(memory)]
                /\ UNCHANGED panicked
    /\ hist' = [hist EXCEPT !.dots = @ + 1]
    /\ UNCHANGED <<cpu, overflow_checks>>

PpuNext == PpuStepAct

SpecPpu == PpuInit /\ [][PpuNext]_vars

LY == Memory_read(memory, ADDRESS_LY)

\* C9: running the PPU alone for a frame of 70224 = 154 * 456 dot steps, LY is
\* the number of whole 456-dot lines stepped so far (0, 1, .. 153, each for
\* 456 dots) and is 0 again after the 70224th; bit 0 of IF is clear up to
\* the step that makes LY 144 and set from the first dot of line 144 on.
C9_FrameTiming ==
    hist.dots <= 154 * 456 =>
        /\ LY = (hist.dots \div 456) % 154
        /\ BitOf(IF_, 0) = IF hist.dots > 144 * 456 THEN 1 ELSE 0

\* C9 witness: the 70224th dot step has wrapped LY to 0 with VBlank requested.
C9_Witness ==
    /\ op.name = "ppu_step"
    /\ hist.dots = 154 * 456
    /\ LY = 0
    /\ BitOf(IF_, 0) = 1

(***************************************************************************)
(* SpecMachine: Jameboy::step, i.e. memory.step, cpu.step and four         *)
(* ppu.step calls, from Jameboy::init with a boot ROM loaded.  The boot    *)
(* program enables the VBlank interrupt and idles; its handler returns.    *)
(***************************************************************************)
\* Jameboy::step calls in one run: one frame (70224 / 4) and the start of
\* the next.
MaxMachineSteps == 17600

\* 0x0000: LD SP,0xFFFE; LD A,1; LDH [0xFF],A; JR -2     0x0040: RETI
BootProgram ==
    LET code == <<\h31, \hFE, \hFF, \h3E, \h01, \hE0, \hFF, \h18, \hFE>>
    IN  [a \in (0 .. Len(code) - 1) \cup {\h40} |->
            IF a = \h40 THEN \hD9 ELSE code[a + 1]]

MachineInit ==
    /\ memory = [Memory_init EXCEPT !.bootstrap_rom = BootProgram]
    /\ cpu = Cpu_init
    /\ ppu = Ppu_init
    /\ overflow_checks \in BOOLEAN
    /\ panicked = FALSE
    /\ op = [name |-> "init"]
    /\ hist = HistInit

\* One ppu.step call of the driver's loop, on a context.
PpuDot(s) ==
    CHOOSE d \in { PCtx(r.ppu, r.memory, s.ovf \/ r.ovf, s.panic \/ r.panic) :
                     r \in {Ppu_step(s.ppu, s.memory)} } : TRUE

\* Whether a ppu.step call turned bit 0 of IF from 0 to 1 / wrapped LY to 0.
VblankRaised(before, after) ==
    /\ BitOf(Memory_read(before.memory, ADDRESS_INTERRUPT_FLAG_REGISTER), 0) = 0
    /\ BitOf(Memory_read(after.memory, ADDRESS_INTERRUPT_FLAG_REGISTER), 0) = 1

FrameWrapped(before, after) ==
    /\ Memory_read(before.memory, ADDRESS_LY) # 0
    /\ Memory_read(after.memory, ADDRESS_LY) = 0

\* The count of VBlank raises in the current frame after one more dot.
RaisedAfter(count, before, after) ==
    IF FrameWrapped(before, after) THEN 0
    ELSE IF VblankRaised(before, after) THEN count + 1
    ELSE count

\* One ppu.step call on each context of S, with the running count of VBlank
\* raises in the current frame.
CountedDot(S) ==
    UNION { { [ctx |-> n, raised |-> RaisedAfter(x.raised, x.ctx, n)] :
                n \in {PpuDot(x.ctx)} } : x \in S }

\* The driver's loop: n ppu.step calls, one after the other.
RECURSIVE CountedDots(_, _)
CountedDots(S, n) ==
    IF n = 0 THEN S ELSE CountedDots(CountedDot(S), n - 1)

\* Jameboy::step on (cpu, memory, ppu): what it leaves, whether it overflowed
\* or panicked, and the count of VBlank raises in the current frame.
JameboyStep(c0, m0, p0, count) ==
    CHOOSE r \in UNION {
        { [cpu |-> c.cpu, memory |-> d.ctx.memory, ppu |-> d.ctx.ppu,
           ovf |-> d.ctx.ovf, panic |-> d.ctx.panic, raised |-> d.raised] :
            d \in CountedDots({[ctx |-> PCtx(p0, c.memory, c.ovf, FALSE),
                                raised |-> count]}, 4) } :
        c \in {Cpu_step(Ctx(c0, Memory_step(m0), FALSE))} } : TRUE

JameboyStepAct ==
    /\ ~panicked
    /\ hist.machine_steps < MaxMachineSteps
    /\ StepModelled(Ctx(cpu, Memory_step(memory), FALSE))
    /\ \E r \in {JameboyStep(cpu, memory, ppu, hist.vblank_raised)} :
           IF r.panic \/ (r.ovf /\ overflow_checks)
           THEN /\ panicked' = TRUE
                /\ op' = [name |-> "jameboy_panic"]
                /\ hist' = [hist EXCEPT !.machine_steps = @ + 1]
                /\ UNCHANGED <<cpu, memory, ppu>>
           ELSE /\ cpu' = r.cpu
                /\ memory' = r.memory
                /\ ppu' = r.ppu
                /\ op' = [name |-> "jameboy_step",
                          kind |-> StepKind(Ctx(cpu, Memory_step(memory), FALSE))]
                /\ hist' = [hist EXCEPT
                              !.machine_steps = @ + 1,
                              !.vblank_raised = r.raised]
                /\ UNCHANGED panicked
    /\ UNCHANGED overflow_checks

MachineNext == JameboyStepAct

SpecMachine == MachineInit /\ [][MachineNext]_vars

\* C10: the PPU sets bit 0 of IF at most once per frame: after the CPU has
\* cleared the bit, no ppu.step sets it again before LY has wrapped to 0.
C10_VblankOncePerFrame == hist.vblank_raised <= 1

(***************************************************************************)
(* SpecScan: the PPU stepping through line 0 and line 1 over an OAM that   *)
(* holds more than ten sprites for line 1, with the CPU storing a mode     *)
(* into the LCD status register between dots.  The build fixes the         *)
(* capacity the sprite FIFO reports.                                       *)
(***************************************************************************)
\* Ppu::step calls in one run: line 0 and two thirds of line 1.
MaxScanDots == 760

\* CPU stores to the LCD status register in one run.
MaxStatStores == 1

\* VecDeque::with_capacity(8) allocates space for at least 8 elements: the
\* capacity is 8 where the allocation is exact and 15 where the ring buffer
\* is rounded up to a power of two.
FifoCapacities == {8, 15}

\* The modes a store to the LCD status register leaves in its low two bits.
StatModes == {2, 3}

\* An OAM of n sprites (y, x, tile 1, flags) on line 1, tile rows, and the
\* first map entries naming tile 1.
OamRam(n, x_of) ==
    LET image == [a \in (\hFE00 .. \hFE00 + 4 * n - 1) \cup (\h8000 .. \h801F)
                        \cup {\h9800, \h9801}
                  |-> CASE a \in \hFE00 .. \hFE00 + 4 * n - 1 ->
                              LET i == (a - \hFE00) \div 4
                              IN  <<17, x_of[i], 1, 128 * (i % 2)>>[(a % 4) + 1]
                        [] a \in \h8000 .. \h801F -> PatternByte(a)
                        [] a \in {\h9800, \h9801} -> 1]
    IN  [a \in {x \in DOMAIN image : image[x] # 0} |-> image[a]]

\* Forty sprites two pixels apart.
DenseOamRam == OamRam(40, [i \in 0 .. 39 |-> 8 + 2 * i])

\* Twelve sprites at the same x.
StackedOamRam == OamRam(12, [i \in 0 .. 11 |-> 20])

ScanInit ==
    /\ memory \in {[Memory_init EXCEPT !.ram = DenseOamRam],
                   [Memory_init EXCEPT !.ram = StackedOamRam]}
    /\ cpu = Cpu_init
    /\ ppu \in {[Ppu_init EXCEPT !.sprite_fetcher.capacity = c] :
                  c \in FifoCapacities}
    /\ overflow_checks \in BOOLEAN
    /\ panicked = FALSE
    /\ op = [name |-> "init"]
    /\ hist = HistInit

ScanStepAct ==
    /\ hist.dots < MaxScanDots
    /\ PpuStepAct

\* A CPU store to the LCD status register: the CPU steps once per four dots.
StoreStatAct ==
    /\ ~panicked
    /\ hist.writes < MaxStatStores
    /\ hist.dots >= DOTS_PER_SCANLINE
    /\ hist.dots % 4 = 0
    /\ \E v \in StatModes :
          memory' = Memory_write(memory, ADDRESS_LCD_STATUS_REGISTER, v)
    /\ op' = [name |-> "store_stat"]
    /\ hist' = [hist EXCEPT !.writes = @ + 1]
    /\ UNCHANGED <<cpu, ppu, overflow_checks, panicked>>

ScanNext == ScanStepAct \/ StoreStatAct

SpecScan == ScanInit /\ [][ScanNext]_vars

\* C11: the sprite buffer never holds more than 10 sprites.
C11_SpriteBufferBound == Len(ppu.sprite_buffer) <= 10

\* C11 witness: the buffer is full, 40 visible sprites have been scanned, and
\* the PPU is still in OAM scan past its 80th dot.
C11_Witness ==
    /\ op.name = "ppu_step"
    /\ read_ppu_mode(memory) = "OamScan"
    /\ ppu.dot > DOTS_PER_OAM_SCAN
    /\ Len(ppu.sprite_buffer) = 10

C13_UndefinedOpcodeStalls ==
    [][(/\ op'.name \in {"cpu_step", "cpu_panic"}
        /\ op'.kind # "interrupt"
        /\ ~cpu.prefixed
        /\ op'.byte \in {\hD3, \hDB, \hDD, \hE3, \hE4, \hEB, \hEC, \hED, \hF4,
                         \hFC, \hFD})
       => /\ op'.name = "cpu_step"
          /\ op'.kind = "undefined"
          /\ cpu' = cpu
          /\ memory' = memory]_vars

\* C13 witness: two steps in a row have stalled on the same undefined byte,
\* the first of them reached by executing the instruction before it.
C13_Witness ==
    /\ op.name = "cpu_step"
    /\ op.kind = "undefined"
    /\ Len(hist.trace) >= 3
    /\ hist.trace[Len(hist.trace) - 1].kind = "undefined"
    /\ hist.trace[Len(hist.trace) - 2].kind = "opcode"
    /\ cpu.pc = ProgramBase + 2

(***************************************************************************)
(* SpecStack: PUSH rr, an instruction that overwrites rr, POP rr, for each *)
(* register pair, from several values of rr and of SP in high RAM, with    *)
(* interrupts off and no DMA.  Each step records the CPU before and after  *)
(* it and the memory it leaves.                                            *)
(***************************************************************************)
\* The register pairs PUSH and POP take, with their opcodes.
StackPairs == {"BC", "DE", "HL", "AF"}

PushOpcode(rr) ==
    CASE rr = "BC" -> \hC5 [] rr = "DE" -> \hD5 [] rr = "HL" -> \hE5 [] rr = "AF" -> \hF5

PopOpcode(rr) ==
    CASE rr = "BC" -> \hC1 [] rr = "DE" -> \hD1 [] rr = "HL" -> \hE1 [] rr = "AF" -> \hF1

\* PUSH rr; LD rr,0x0000 (XOR A,A for AF); POP rr
RoundTripProgram(rr) ==
    CASE rr = "BC" -> <<\hC5, \h01, \h00, \h00, \hC1>>
      [] rr = "DE" -> <<\hD5, \h11, \h00, \h00, \hD1>>
      [] rr = "HL" -> <<\hE5, \h21, \h00, \h00, \hE1>>
      [] rr = "AF" -> <<\hF5, \hAF, \hF1>>

\* Values of SP in high RAM [0xFF80, 0xFFFE] and values written to rr.
StackPointers == {\hFFFE, \hFF91, \hFF80}

PairValues == {\h1234, \hABCD, \h00FF, \hFF00}

StackInit ==
    /\ ppu = Ppu_init
    /\ overflow_checks \in BOOLEAN
    /\ panicked = FALSE
    /\ op = [name |-> "init"]
    /\ hist = HistInit
    /\ \E rr \in StackPairs, sp \in StackPointers, w \in PairValues :
          /\ memory = [Memory_init EXCEPT
                         !.ram = ProgramRam(RoundTripProgram(rr), 0, 0)]
          /\ cpu = Cpu_write_register_wide(
                       [Cpu_init EXCEPT !.pc = ProgramBase, !.sp = sp,
                                        !.ime = FALSE], rr, w)

\* Cpu::step, recorded with the CPU before and after and the memory after.
ObservedCpuStepAct ==
    /\ ~panicked
    /\ hist.cpu_steps < MaxCpuSteps
    /\ StepModelled(Ctx(cpu, memory, FALSE))
    /\ \E s1 \in {Cpu_step(Ctx(cpu, memory, FALSE))},
          byte \in {FetchedByte(Ctx(cpu, memory, FALSE))} :
         IF s1.ovf /\ overflow_checks
         THEN /\ panicked' = TRUE
              /\ op' = [name |-> "cpu_panic", byte |-> byte]
              /\ hist' = [hist EXCEPT !.cpu_steps = @ + 1]
              /\ UNCHANGED <<cpu, memory>>
         ELSE /\ cpu' = s1.cpu
              /\ memory' = s1.memory
              /\ op' = [name |-> "cpu_step", byte |-> byte]
              /\ hist' = [hist EXCEPT
                            !.cpu_steps = @ + 1,
                            !.trace = Append(@, [byte |-> byte, before |-> cpu,
                                                 after |-> s1.cpu,
                                                 memory |-> s1.memory])]
              /\ UNCHANGED panicked
    /\ UNCHANGED <<ppu, overflow_checks>>

StackNext == ObservedCpuStepAct

SpecStack == StackInit /\ [][StackNext]_vars

\* C14: with SP in high RAM and no DMA, PUSH rr leaves the msb of rr at SP-1,
\* the lsb at SP-2 and SP lowered by 2, and the POP rr two instructions later
\* leaves SP and rr as they were before the PUSH, rr having been overwritten
\* in between.
C14_StackRoundTrip ==
    \A rr \in StackPairs : \A i \in 1 .. Len(hist.trace) :
        LET e == hist.trace[i]
            sp == e.before.sp
            w == Cpu_read_register_wide(e.before, rr)
        IN  (e.byte = PushOpcode(rr) /\ sp \in \hFF80 .. \hFFFE)
            => /\ Memory_read(e.memory, sp - 1) = w \div 256
               /\ Memory_read(e.memory, sp - 2) = w % 256
               /\ e.after.sp = sp - 2
               /\ (i + 2 <= Len(hist.trace) /\ hist.trace[i + 2].byte = PopOpcode(rr))
                  => /\ hist.trace[i + 2].after.sp = sp
                     /\ Cpu_read_register_wide(hist.trace[i + 2].after, rr) = w

\* C14 witness: SP=0xFFFE, BC=0x1234, after PUSH BC; LD BC,0x0000; POP BC:
\* BC was 0 before the POP, and ram[0xFFFD]=0x12, ram[0xFFFC]=0x34.
C14_Witness ==
    /\ op.name = "cpu_step"
    /\ Len(hist.trace) = 3
    /\ hist.trace[1].byte = \hC5
    /\ hist.trace[3].byte = \hC1
    /\ Cpu_read_register_wide(hist.trace[3].before, "BC") = 0
    /\ Cpu_read_register_wide(cpu, "BC") = \h1234
    /\ cpu.sp = \hFFFE
    /\ Memory_read(memory, \hFFFD) = \h12
    /\ Memory_read(memory, \hFFFC) = \h34

(***************************************************************************)
(* SpecInstr: one LD r8,r8' or one INC r8, from register files whose seven *)
(* registers hold different values.  The loads run with IME on or off and  *)
(* with or without an enable request left by an earlier EI; the increments *)
(* run from every value of the register.                                   *)
(***************************************************************************)
Registers8 == {"A", "B", "C", "D", "E", "H", "L"}

\* The field of the CPU record behind a register, and its number in opcodes.
Field(r) ==
    CASE r = "A" -> "a" [] r = "B" -> "b" [] r = "C" -> "c" [] r = "D" -> "d"
      [] r = "E" -> "e" [] r = "H" -> "h" [] r = "L" -> "l"

RegisterNumber(r) == CHOOSE i \in {0, 1, 2, 3, 4, 5, 7} : RegisterOf(i) = r

LdOpcode(dst, src) == 64 + 8 * RegisterNumber(dst) + RegisterNumber(src)

IncOpcode(r) == 8 * RegisterNumber(r) + 4

\* A register file with A = v and the other registers at different offsets.
RegisterFile(c, v) ==
    [c EXCEPT !.a = v, !.b = W8(v + 17), !.c = W8(v + 34), !.d = W8(v + 51),
              !.e = W8(v + 68), !.h = W8(v + 85), !.l = W8(v + 102)]

InstrInit ==
    /\ ppu = Ppu_init
    /\ overflow_checks \in BOOLEAN
    /\ panicked = FALSE
    /\ op = [name |-> "init"]
    /\ hist = [HistInit EXCEPT !.cpu_steps = MaxCpuSteps - 1]
    /\ \/ \E dst \in Registers8, src \in Registers8, v \in {\h00, \h9C},
             f \in {\h00, \hF0}, ime \in BOOLEAN, pending \in {None, Some(1)} :
            /\ memory = [Memory_init EXCEPT
                           !.ram = ProgramRam(<<LdOpcode(dst, src)>>, 0, 0)]
            /\ cpu = RegisterFile(
                         [Cpu_init EXCEPT !.pc = ProgramBase, !.sp = StackBase,
                                          !.f = f, !.ime = ime,
                                          !.steps_since_request_ime_enable = pending],
                         v)
       \/ \E r \in Registers8, v \in 0 .. 255, f \in {\h00, \hF0} :
            /\ memory = [Memory_init EXCEPT
                           !.ram = ProgramRam(<<IncOpcode(r)>>, 0, 0)]
            /\ cpu = RegisterFile(
                         [Cpu_init EXCEPT !.pc = ProgramBase, !.sp = StackBase,
                                          !.f = f, !.ime = FALSE],
                         v)

InstrNext == ObservedCpuStepAct

SpecInstr == InstrInit /\ [][InstrNext]_vars

\* What a step executing LD dst,src leaves: dst holds what src held, every
\* other 8-bit register, F, SP and memory are as before, PC is one further.
LdStep(dst, src) ==
    /\ op'.name = "cpu_step"
    /\ cpu'[Field(dst)] = cpu[Field(src)]
    /\ \A r \in Registers8 \ {dst} : cpu'[Field(r)] = cpu[Field(r)]
    /\ cpu'.f = cpu.f
    /\ cpu'.sp = cpu.sp
    /\ cpu'.pc = cpu.pc + 1
    /\ memory' = memory

\* C15 as stated: every step that executes LD dst,src does LdStep and leaves
\* IME as it was.
C15_LoadFrame ==
    [][\A dst \in Registers8, src \in Registers8 :
          (op'.name \in {"cpu_step", "cpu_panic"} /\ op'.byte = LdOpcode(dst, src))
          => (LdStep(dst, src) /\ cpu'.ime = cpu.ime)]_vars

\* C15 amended: every step that executes LD dst,src does LdStep, and leaves
\* IME as it was unless an earlier EI has left an enable request pending, in
\* which case the step ends with IME on.
C15_LoadFrameAmended ==
    [][\A dst \in Registers8, src \in Registers8 :
          (op'.name \in {"cpu_step", "cpu_panic"} /\ op'.byte = LdOpcode(dst, src))
          => /\ LdStep(dst, src)
             /\ cpu'.ime = (cpu.ime \/ cpu.steps_since_request_ime_enable # None)]_vars

\* C15 witness: LD B,C has run with B and C different and no request pending.
C15_Witness ==
    /\ op.name = "cpu_step"
    /\ op.byte = LdOpcode("B", "C")
    /\ hist.trace[1].before.b # hist.trace[1].before.c
    /\ hist.trace[1].before.steps_since_request_ime_enable = None
    /\ cpu.b = hist.trace[1].before.c
    /\ cpu.ime = hist.trace[1].before.ime

(***************************************************************************)
(* SpecPairs: Cpu::write_register_wide applied once to a register pair and *)
(* a 16-bit value drawn at the start, on a CPU whose registers hold other  *)
(* values.                                                                 *)
(***************************************************************************)
\* The 16-bit values written: every low byte under three high bytes.
PairWords == {256 * msb + lsb : msb \in {\h00, \hAB, \hFF}, lsb \in 0 .. 255}

\* The fields holding the msb and the lsb of a register pair.
PairFields(rr) ==
    CASE rr = "AF" -> <<"a", "f">> [] rr = "BC" -> <<"b", "c">>
      [] rr = "DE" -> <<"d", "e">> [] rr = "HL" -> <<"h", "l">>

PairsInit ==
    /\ memory = Memory_init
    /\ ppu = Ppu_init
    /\ overflow_checks \in BOOLEAN
    /\ panicked = FALSE
    /\ hist = HistInit
    /\ \E f \in {\h00, \hF0} : cpu = RegisterFile([Cpu_init EXCEPT !.f = f], \h5A)
    /\ \E rr \in StackPairs, w \in PairWords :
          op = [name |-> "init", r |-> rr, value |-> w]

WritePairAct ==
    /\ op.name = "init"
    /\ cpu' = Cpu_write_register_wide(cpu, op.r, op.value)
    /\ op' = [op EXCEPT !.name = "write_register_wide"]
    /\ UNCHANGED <<memory, ppu, overflow_checks, panicked, hist>>

PairsNext == WritePairAct

SpecPairs == PairsInit /\ [][PairsNext]_vars

\* C16 as stated: after writing w to a pair, its halves read (w >> 8, w & 0xFF)
\* and the pair reads w.
C16_PairRoundTrip ==
    op.name = "write_register_wide"
    => /\ cpu[PairFields(op.r)[1]] = op.value \div 256
       /\ cpu[PairFields(op.r)[2]] = op.value % 256
       /\ Cpu_read_register_wide(cpu, op.r) = op.value

\* C16 amended: as stated for BC, DE and HL; for AF the low half reads
\* w & 0xF0 and the pair reads w & 0xFFF0.
C16_PairRoundTripAmended ==
    op.name = "write_register_wide"
    => LET lsb == IF op.r = "AF" THEN And8(op.value % 256, \hF0)
                  ELSE op.value % 256
       IN  /\ cpu[PairFields(op.r)[1]] = op.value \div 256
           /\ cpu[PairFields(op.r)[2]] = lsb
           /\ Cpu_read_register_wide(cpu, op.r) = 256 * (op.value \div 256) + lsb

\* C16 witness: 0xABCD written to AF reads back as A = 0xAB, F = 0xC0.
C16_Witness ==
    /\ op.name = "write_register_wide"
    /\ op.r = "AF"
    /\ op.value = \hABCD
    /\ cpu.a = \hAB
    /\ cpu.f = \hC0

(***************************************************************************)
(* SpecHalfCarry: half_carried_add8 and half_carried_sub8 applied to a     *)
(* pair of bytes drawn at the start.                                       *)
(***************************************************************************)
HalfCarryInit ==
    /\ memory = Memory_init
    /\ cpu = Cpu_init
    /\ ppu = Ppu_init
    /\ overflow_checks = FALSE
    /\ panicked = FALSE
    /\ hist = HistInit
    /\ \E a \in 0 .. 255, b \in 0 .. 255 : op = [name |-> "init", a |-> a, b |-> b]

HalfCarryAct ==
    /\ op.name = "init"
    /\ op' = [name |-> "half_carry", a |-> op.a, b |-> op.b,
              add |-> half_carried_add8(op.a, op.b),
              add_swapped |-> half_carried_add8(op.b, op.a),
              sub |-> half_carried_sub8(op.a, op.b)]
    /\ UNCHANGED <<memory, cpu, ppu, overflow_checks, panicked, hist>>

HalfCarryNext == HalfCarryAct

SpecHalfCarry == HalfCarryInit /\ [][HalfCarryNext]_vars

\* C17: half_carried_add8(a, b) is true exactly when (a & 0xF) + (b & 0xF)
\* exceeds 0xF and gives the same for (b, a); half_carried_sub8(a, b) is true
\* exactly when (a & 0xF) < (b & 0xF).
C17_HalfCarry ==
    op.name = "half_carry"
    => /\ op.add = ((op.a % 16) + (op.b % 16) > 15)
       /\ op.add_swapped = op.add
       /\ op.sub = ((op.a % 16) < (op.b % 16))

\* C17 witness: a = 0x08, b = 0x09 half-carries both ways, with no carry out
\* of bit 7.
C17_Witness ==
    /\ op.name = "half_carry"
    /\ op.a = \h08
    /\ op.b = \h09
    /\ op.add
    /\ op.sub

(***************************************************************************)
(* SpecTileRow: line_bytes_to_pixel_colours applied to a pair of bytes     *)
(* drawn at the start, and the PPU run from Ppu::init up to the first      *)
(* tile row its background fetcher decodes, over a memory holding that     *)
(* row's two bytes.                                                        *)
(***************************************************************************)
\* Ppu::step calls in one run: line 0, the OAM scan of line 1 and the fetch
\* of its first tile.
MaxRowDots == 545

\* The two bytes of row 1 of tile 0 in the 0x8800 tile area (LCDC bit 4 = 0).
ADDRESS_ROW_LOW == \h8802

ADDRESS_ROW_HIGH == \h8803

\* Rows (first byte, second byte) given to the fetcher.
FetchedRows ==
    {<<\h3C, \h7E>>, <<\h42, \h42>>, <<\h7E, \h0A>>, <<\hFF, \h00>>,
     <<\h00, \hFF>>, <<\h01, \h80>>}

TileRowInit ==
    /\ cpu = Cpu_init
    /\ ppu = Ppu_init
    /\ overflow_checks = TRUE
    /\ panicked = FALSE
    /\ hist = HistInit
    /\ \/ /\ memory = Memory_init
          /\ \E lo \in 0 .. 255, hi \in 0 .. 255 :
                op = [name |-> "row", lo |-> lo, hi |-> hi]
       \/ /\ \E row \in FetchedRows :
                memory = [Memory_init EXCEPT
                            !.ram = ArraySet(ArraySet(EmptyArray, ADDRESS_ROW_LOW, row[1]),
                                             ADDRESS_ROW_HIGH, row[2])]
          /\ op = [name |-> "init"]

DecodeRowAct ==
    /\ op.name = "row"
    /\ \E pixels \in {line_bytes_to_pixel_colours(op.lo, op.hi)} :
          op' = [name |-> "decode_row", lo |-> op.lo, hi |-> op.hi,
                 pixels |-> pixels,
                 colours |-> [i \in 1 .. TILE_DIMENSION |->
                                 PixelColour_try_from(pixels[i])]]
    /\ UNCHANGED <<memory, cpu, ppu, overflow_checks, panicked, hist>>

RowStepAct ==
    /\ op.name \in {"init", "ppu_step"}
    /\ hist.dots < MaxRowDots
    /\ PpuStepAct

TileRowNext == DecodeRowAct \/ RowStepAct

SpecTileRow == TileRowInit /\ [][TileRowNext]_vars

\* Bit k of a byte (k = 0 the lowest).
ShiftedBit(byte, k) == (byte \div 2 ^ k) % 2

\* C18: the pixel at position i (0 = leftmost) of a decoded tile row has
\* bit 1 = (hi >> (7-i)) & 1 and bit 0 = (lo >> (7-i)) & 1, where lo is the
\* first and hi the second of the row's two consecutive bytes; 0 is White,
\* 1 LightGray, 2 DarkGray, 3 Black.
C18_TileRowDecoding ==
    /\ op.name = "decode_row"
       => \A i \in 0 .. 7 :
             /\ op.pixels[i + 1] = 2 * ShiftedBit(op.hi, 7 - i) + ShiftedBit(op.lo, 7 - i)
             /\ op.colours[i + 1] =
                   CASE op.pixels[i + 1] = 0 -> "White"
                     [] op.pixels[i + 1] = 1 -> "LightGray"
                     [] op.pixels[i + 1] = 2 -> "DarkGray"
                     [] op.pixels[i + 1] = 3 -> "Black"
    /\ (op.name = "ppu_step" /\ ppu.background_fetcher.fetch_step.tag = "Push")
       => \A i \in 0 .. 7 :
             ppu.background_fetcher.fetch_step.pixel_colours[i + 1] =
                 2 * ShiftedBit(Memory_read(memory, ADDRESS_ROW_HIGH), 7 - i)
                 + ShiftedBit(Memory_read(memory, ADDRESS_ROW_LOW), 7 - i)

\* C18 witness: the background fetcher has decoded the row 0x3C, 0x7E of
\* memory into White, DarkGray, Black x 4, DarkGray, White.
C18_Witness ==
    /\ op.name = "ppu_step"
    /\ ppu.background_fetcher.fetch_step.tag = "Push"
    /\ Memory_read(memory, ADDRESS_ROW_LOW) = \h3C
    /\ Memory_read(memory, ADDRESS_ROW_HIGH) = \h7E
    /\ ppu.background_fetcher.fetch_step.pixel_colours = <<0, 2, 3, 3, 3, 3, 2, 0>>

(***************************************************************************)
(* SpecZeroFill: the loop that clears video RAM, run step by step by       *)
(* Cpu::step from a video RAM that holds stale bytes.                      *)
(***************************************************************************)
MaxFillSteps == 32776

VRAM_BEGIN == \h8000
VRAM_END == \hA000

\* XOR A,A; LD HL,0x9FFF; loop: LD [HL-],A; BIT 7,H; JR NZ,loop
ZeroFillProgram == <<\hAF, \h21, \hFF, \h9F, \h32, \hCB, \h7C, \h20, \hFB>>

\* The address of the instruction that follows the loop.
ZeroFillExit == ProgramBase + Len(ZeroFillProgram)

\* Steps from the first instruction to the exit: two to set up, then four
\* per byte (the prefix byte 0xCB is a step of its own).
ZeroFillSteps == 2 + 4 * (VRAM_END - VRAM_BEGIN)

\* Stale bytes inside video RAM, and one on either side of it.
StaleAddresses ==
    {VRAM_BEGIN - 1, VRAM_BEGIN, VRAM_BEGIN + 1, \h80FF, \h8100, \h9000,
     VRAM_END - 2, VRAM_END - 1, VRAM_END}

StaleRam ==
    LET program == ProgramRam(ZeroFillProgram, 0, 0)
    IN  [a \in DOMAIN program \cup StaleAddresses |->
            IF a \in StaleAddresses THEN \h5A ELSE program[a]]

ZeroFillInit ==
    /\ ppu = Ppu_init
    /\ overflow_checks \in BOOLEAN
    /\ panicked = FALSE
    /\ op = [name |-> "init"]
    /\ hist = HistInit
    /\ memory = [Memory_init EXCEPT !.ram = StaleRam]
    /\ \E a \in {\h00, \h5A}, hl \in {\h0000, \hC123} :
          cpu = Cpu_write_register_wide(
                    [Cpu_init EXCEPT !.pc = ProgramBase, !.a = a, !.ime = FALSE],
                    "HL", hl)

\* One call of Cpu::step, counted but not recorded.
LoopStepAct ==
    /\ ~panicked
    /\ hist.cpu_steps < MaxFillSteps
    /\ StepModelled(Ctx(cpu, memory, FALSE))
    /\ \E s1 \in {Cpu_step(Ctx(cpu, memory, FALSE))},
          byte \in {FetchedByte(Ctx(cpu, memory, FALSE))} :
         IF s1.ovf /\ overflow_checks
         THEN /\ panicked' = TRUE
              /\ op' = [name |-> "cpu_panic", byte |-> byte]
              /\ UNCHANGED <<cpu, memory>>
         ELSE /\ cpu' = s1.cpu
              /\ memory' = s1.memory
              /\ op' = [name |-> "cpu_step", byte |-> byte]
              /\ UNCHANGED panicked
    /\ hist' = [hist EXCEPT !.cpu_steps = @ + 1]
    /\ UNCHANGED <<ppu, overflow_checks>>

ZeroFillNext == LoopStepAct

SpecZeroFill == ZeroFillInit /\ [][ZeroFillNext]_vars

VramCleared ==
    \A a \in VRAM_BEGIN .. VRAM_END - 1 : Memory_read(memory, a) = 0

\* C19: the zero-fill loop is left (after two steps of set-up and four steps
\* per byte of video RAM, without a panic), and once it is left every byte of
\* [0x8000, 0xA000) reads zero, H is 0x7F and the zero flag is set.
C19_ZeroFillTerminates ==
    /\ ~panicked
    /\ hist.cpu_steps >= ZeroFillSteps => cpu.pc >= ZeroFillExit
    /\ cpu.pc >= ZeroFillExit =>
          /\ VramCleared
          /\ Cpu_read_register(cpu, "H") = \h7F
          /\ Cpu_read_flags(cpu).zero

\* The step that leaves the loop: the jump is not taken, video RAM is clear
\* and the bytes next to it are as they were.
C19_Witness ==
    /\ cpu.pc = ZeroFillExit
    /\ op.name = "cpu_step" /\ op.byte = \h20
    /\ hist.cpu_steps = ZeroFillSteps
    /\ VramCleared
    /\ Cpu_read_register_wide(cpu, "HL") = VRAM_BEGIN - 1
    /\ ArrayGet(memory.ram, VRAM_BEGIN - 1) = \h5A
    /\ ArrayGet(memory.ram, VRAM_END) = \h5A

(***************************************************************************)
(* Claims on INC r8, under SpecInstr                                       *)
(***************************************************************************)
\* C20: every step that executes INC r stores (a + 1) mod 256 in r, where a
\* is the value r held, sets Z exactly when the result is 0, clears N, sets H
\* exactly when the low nibble of a was 0xF, and leaves C as it was.
C20_IncR8 ==
    [][\A r \in Registers8 :
          (op'.name \in {"cpu_step", "cpu_panic"} /\ op'.byte = IncOpcode(r))
          => /\ op'.name = "cpu_step"
             /\ cpu'[Field(r)] = (cpu[Field(r)] + 1) % 256
             /\ Cpu_read_flags(cpu').zero = (cpu'[Field(r)] = 0)
             /\ ~Cpu_read_flags(cpu').subtract
             /\ Cpu_read_flags(cpu').half_carry = (And8(cpu[Field(r)], \h0F) = \h0F)
             /\ Cpu_read_flags(cpu').carry = Cpu_read_flags(cpu).carry]_vars

\* C20 witness: INC A has run with A = 0x0F and every flag set; A is 0x10,
\* Z and N are clear, H is set and C is still set.
C20_Witness ==
    /\ op.name = "cpu_step" /\ op.byte = IncOpcode("A")
    /\ Len(hist.trace) = 1
    /\ hist.trace[1].before.a = \h0F
    /\ hist.trace[1].before.f = \hF0
    /\ cpu.a = \h10
    /\ cpu.f = \h30

(***************************************************************************)
(* SpecFlags: Cpu::write_flags applied once to a flag register             *)
(***************************************************************************)
TriState == {None, Some(TRUE), Some(FALSE)}

\* The values F can hold: its low nibble is always zero.
FlagBytes == {16 * k : k \in 0 .. 15}

FlagsInit ==
    /\ memory = Memory_init
    /\ ppu = Ppu_init
    /\ overflow_checks \in BOOLEAN
    /\ panicked = FALSE
    /\ hist = HistInit
    /\ \E f \in FlagBytes : cpu = [Cpu_init EXCEPT !.f = f]
    /\ \E z \in TriState, n \in TriState, h \in TriState, c \in TriState :
          op = [name |-> "init", flags |-> WriteFlags(z, n, h, c), before |-> 0]

WriteFlagsAct ==
    /\ op.name = "init"
    /\ cpu' = Cpu_write_flags(cpu, op.flags)
    /\ op' = [op EXCEPT !.name = "write_flags", !.before = cpu.f]
    /\ UNCHANGED <<memory, ppu, overflow_checks, panicked, hist>>

FlagsNext == WriteFlagsAct

SpecFlags == FlagsInit /\ [][FlagsNext]_vars

\* Bit b of F after a write of o over a register that held `before`.
ExpectedFlagBit(before, b, o) ==
    IF o = None THEN (before \div 2 ^ b) % 2 ELSE IF o[1] THEN 1 ELSE 0

\* C21: after write_flags each of the bits 7, 6, 5, 4 of F is 1 for
\* Some(true), 0 for Some(false) and as it was for None, whatever is asked of
\* the other three, and the low nibble is as it was; read_flags returns
\* exactly the bits 7, 6, 5, 4 of F.
C21_WriteFlagsTriState ==
    /\ Cpu_read_flags(cpu) =
          [zero |-> (cpu.f \div 128) % 2 = 1, subtract |-> (cpu.f \div 64) % 2 = 1,
           half_carry |-> (cpu.f \div 32) % 2 = 1, carry |-> (cpu.f \div 16) % 2 = 1]
    /\ op.name = "write_flags" =>
          /\ (cpu.f \div 128) % 2 = ExpectedFlagBit(op.before, 7, op.flags.zero)
          /\ (cpu.f \div 64) % 2 = ExpectedFlagBit(op.before, 6, op.flags.subtract)
          /\ (cpu.f \div 32) % 2 = ExpectedFlagBit(op.before, 5, op.flags.half_carry)
          /\ (cpu.f \div 16) % 2 = ExpectedFlagBit(op.before, 4, op.flags.carry)
          /\ cpu.f % 16 = op.before % 16

\* C21 witness: over F = 0b1010_0000, zero left alone, subtract set,
\* half-carry cleared and carry left alone give F = 0b1100_0000.
C21_Witness ==
    /\ op.name = "write_flags"
    /\ op.before = \hA0
    /\ op.flags = WriteFlags(None, Some(TRUE), Some(FALSE), None)
    /\ cpu.f = \hC0

(***************************************************************************)
(* Claims on interrupt dispatch, under SpecCpu                             *)
(***************************************************************************)
\* C22: every CPU step that services an interrupt returns with IME off.
C22_DispatchClearsIme ==
    [][(op'.name = "cpu_step" /\ op'.kind = "interrupt") => ~cpu'.ime]_vars

\* C23: every CPU step that services interrupt source k returns with bit k
\* of IF clear.
C23_DispatchClearsIfBit ==
    [][(op'.name = "cpu_step" /\ op'.kind = "interrupt")
       => \A k \in 0 .. 4 :
             SelectedInterrupt(IE, IF_) = Some(k)
             => BitOf(Memory_read(memory', ADDRESS_INTERRUPT_FLAG_REGISTER), k) = 0]_vars

(***************************************************************************)
(* Claims on RETI, under SpecCpu                                           *)
(***************************************************************************)
\* The step just taken executed RETI (0xD9, not as the operand of a prefix).
RetiStep ==
    /\ op'.name = "cpu_step" /\ op'.kind = "opcode"
    /\ ~op'.prefixed /\ op'.byte = \hD9

\* C24: when the step that executes RETI returns, PC holds the address
\* popped from the stack (low byte at SP, high byte at SP + 1), SP has
\* increased by 2 and IME is on.
C24_RetiEnablesAtOnce ==
    [][RetiStep
       => /\ cpu'.pc = u8_to_u16(Memory_read(memory, W16(cpu.sp + 1)),
                                 Memory_read(memory, cpu.sp))
          /\ cpu'.sp = W16(cpu.sp + 2)
          /\ cpu'.ime]_vars

(***************************************************************************)
(* Claims on the 0xCB prefix, under SpecCpu                                *)
(***************************************************************************)
\* The step just taken executed the prefix byte 0xCB.
PrefixStep ==
    /\ op'.name = "cpu_step" /\ op'.kind = "opcode"
    /\ ~op'.prefixed /\ op'.byte = \hCB

\* C25: the step that executes the prefix advances PC by 1, sets the prefixed
\* flag and changes no register, flag or byte of memory; and every step taken
\* with the prefixed flag set services no interrupt: it decodes the byte at
\* PC, which follows the prefix, through the prefixed table and returns with
\* the flag clear.
C25_PrefixThenOperand ==
    [][/\ PrefixStep
          => /\ cpu'.pc = W16(cpu.pc + 1)
             /\ cpu'.prefixed
             /\ \A r \in {"a", "b", "c", "d", "e", "f", "h", "l", "sp"} :
                   cpu'[r] = cpu[r]
             /\ memory' = memory
       /\ (op'.name \in {"cpu_step", "cpu_panic"} /\ cpu.prefixed)
          => /\ op'.kind = "opcode"
             /\ op'.byte = Memory_read(memory, cpu.pc)
             /\ Len(hist.trace) > 0
             /\ hist.trace[Len(hist.trace)].kind = "opcode"
             /\ hist.trace[Len(hist.trace)].byte = \hCB
             /\ op'.name = "cpu_step" => ~cpu'.prefixed]_vars

(***************************************************************************)
(* SpecImmediate: one Cpu::step over an instruction with an immediate      *)
(* operand, followed in memory by a byte that differs from the operand.    *)
(***************************************************************************)
LoadImmediateOpcodes == {8 * RegisterNumber(r) + 6 : r \in Registers8}

TwoByteOpcodes == LoadImmediateOpcodes \cup {\h18, \h36, \hDE, \hE0, \hF0}

ThreeByteOpcodes == {\h01, \h11, \h21, \h31, \hC3, \hCD, \hEA, \hFA}

ImmediateInit ==
    /\ ppu = Ppu_init
    /\ overflow_checks \in BOOLEAN
    /\ panicked = FALSE
    /\ op = [name |-> "init"]
    /\ hist = [HistInit EXCEPT !.cpu_steps = MaxCpuSteps - 1]
    /\ \E opcode \in TwoByteOpcodes \cup ThreeByteOpcodes,
          n \in {\h05, \h80}, m \in {\hC1, \hD0}, k \in {\h00, \h3C},
          a \in {\h3A, \h80}, f \in {\h00, \hF0},
          sp \in {StackBase, \hFFFE} :
          /\ memory = [Memory_init EXCEPT
                         !.ram = ProgramRam(<<opcode, n, m, k>>, 0, 0)]
          /\ cpu = Cpu_write_register_wide(
                       [Cpu_init EXCEPT !.pc = ProgramBase, !.sp = sp, !.a = a,
                                        !.f = f, !.ime = FALSE],
                       "HL", \hC100)

ImmediateNext == ObservedCpuStepAct

SpecImmediate == ImmediateInit /\ [][ImmediateNext]_vars

\* The bytes that follow the opcode the step fetches.
Operand8 == Memory_read(memory, W16(cpu.pc + 1))
Operand16 == u8_to_u16(Memory_read(memory, W16(cpu.pc + 2)), Operand8)

\* e8 read as a signed byte.
Signed8(b) == IF b >= 128 THEN b - 256 ELSE b

\* C26: a step over a 2-byte instruction uses the byte after the opcode as
\* its operand, and a step over a 3-byte instruction uses the two bytes after
\* the opcode as (lsb, msb): LD r,n8 loads it, LD [HL],n8 stores it at HL,
\* SBC A,n8 subtracts it and the carry from A, LDH uses it as the low byte of
\* the address, JR adds it to PC, LD rr,n16 loads it, JP and CALL jump to it,
\* LD [a16],A and LD A,[a16] use it as the address.
C26_ImmediateOperands ==
    [][(op'.name \in {"cpu_step", "cpu_panic"})
       => /\ op'.name = "cpu_step"
          /\ \A r \in Registers8 :
                op'.byte = 8 * RegisterNumber(r) + 6 => cpu'[Field(r)] = Operand8
          /\ op'.byte = \h36 =>
                Memory_read(memory', Cpu_read_register_wide(cpu, "HL")) = Operand8
          /\ op'.byte = \hDE =>
                cpu'.a = (cpu.a - Operand8
                            - (IF Cpu_read_flags(cpu).carry THEN 1 ELSE 0)) % 256
          /\ op'.byte = \hE0 => Memory_read(memory', \hFF00 + Operand8) = cpu.a
          /\ op'.byte = \hF0 => cpu'.a = Memory_read(memory, \hFF00 + Operand8)
          /\ op'.byte = \h18 => cpu'.pc = W16(cpu.pc + 2 + Signed8(Operand8))
          /\ \A i \in 0 .. 3 :
                op'.byte = 16 * i + 1 =>
                   Cpu_read_register_wide(cpu', <<"BC", "DE", "HL", "SP">>[i + 1])
                      = Operand16
          /\ op'.byte \in {\hC3, \hCD} => cpu'.pc = Operand16
          /\ op'.byte = \hEA => Memory_read(memory', Operand16) = cpu.a
          /\ op'.byte = \hFA => cpu'.a = Memory_read(memory, Operand16)]_vars

(***************************************************************************)
(* SpecAdc: one Cpu::step over ADC A, r8                                   *)
(***************************************************************************)
AdcOpcode(r) == \h88 + RegisterNumber(r)

\* Operand values around the nibble and byte boundaries.
AdcOperands == {\h00, \h01, \h0E, \h0F, \h10, \h7F, \h80, \hF0, \hFE, \hFF}

AdcInit ==
    /\ ppu = Ppu_init
    /\ overflow_checks \in BOOLEAN
    /\ panicked = FALSE
    /\ op = [name |-> "init"]
    /\ hist = [HistInit EXCEPT !.cpu_steps = MaxCpuSteps - 1]
    /\ \E r \in Registers8, a \in 0 .. 255, b \in AdcOperands, f \in {\h00, \hF0} :
          /\ memory = [Memory_init EXCEPT !.ram = ProgramRam(<<AdcOpcode(r)>>, 0, 0)]
          /\ cpu = [[Cpu_init EXCEPT !.pc = ProgramBase, !.sp = StackBase,
                                     !.f = f, !.ime = FALSE, !.b = b, !.c = b,
                                     !.d = b, !.e = b, !.h = b, !.l = b]
                       EXCEPT !.a = a]

AdcNext == ObservedCpuStepAct

SpecAdc == AdcInit /\ [][AdcNext]_vars

\* The previous carry flag as a number.
CarryIn == IF Cpu_read_flags(cpu).carry THEN 1 ELSE 0

\* C27: a step that executes ADC A, r leaves A = (A + r + c) mod 256, where
\* c is the previous carry, with C set iff A + r + c > 255, H set iff
\* (A & 0xF) + (r & 0xF) + c > 0xF, Z set iff the result is 0, and N clear.
C27_AdcCarryOnce ==
    [][\A r \in Registers8 :
          (op'.name \in {"cpu_step", "cpu_panic"} /\ op'.byte = AdcOpcode(r))
          => /\ op'.name = "cpu_step"
             /\ cpu'.a = (cpu.a + cpu[Field(r)] + CarryIn) % 256
             /\ Cpu_read_flags(cpu').carry = (cpu.a + cpu[Field(r)] + CarryIn > 255)
             /\ Cpu_read_flags(cpu').half_carry
                   = ((cpu.a % 16) + (cpu[Field(r)] % 16) + CarryIn > 15)
             /\ Cpu_read_flags(cpu').zero = (cpu'.a = 0)
             /\ ~Cpu_read_flags(cpu').subtract]_vars

(***************************************************************************)
(* SpecRes: the prefix and then RES b, operand, run by Cpu::step           *)
(***************************************************************************)
ResOpcodes == \h80 .. \hBF

\* Operand values: every single bit set, every single bit clear, and a few
\* mixed patterns.
ResOperands ==
    {2 ^ k : k \in 0 .. 7} \cup {255 - 2 ^ k : k \in 0 .. 7}
    \cup {\h00, \hFF, \h55, \hAA, \h5A, \hA5}

ADDRESS_RES_OPERAND == \hC100

ResInit ==
    /\ ppu = Ppu_init
    /\ overflow_checks \in BOOLEAN
    /\ panicked = FALSE
    /\ op = [name |-> "init"]
    /\ hist = [HistInit EXCEPT !.cpu_steps = MaxCpuSteps - 2]
    /\ \E byte \in ResOpcodes, v \in ResOperands, f \in {\h00, \hF0} :
          LET c0 == [Cpu_init EXCEPT !.pc = ProgramBase, !.sp = StackBase,
                                     !.f = f, !.ime = FALSE]
              r == RegisterOf(byte % 8)
          IN  IF r = "[HL]"
              THEN /\ cpu = Cpu_write_register_wide(c0, "HL", ADDRESS_RES_OPERAND)
                   /\ memory = [Memory_init EXCEPT
                                  !.ram = ArraySet(ProgramRam(<<\hCB, byte>>, 0, 0),
                                                   ADDRESS_RES_OPERAND, v)]
              ELSE /\ cpu = [c0 EXCEPT ![Field(r)] = v]
                   /\ memory = [Memory_init EXCEPT
                                  !.ram = ProgramRam(<<\hCB, byte>>, 0, 0)]

ResNext == ObservedCpuStepAct

SpecRes == ResInit /\ [][ResNext]_vars

\* The operand of a prefixed byte in context (c, m): a register or the byte
\* at [HL].
OperandValue(c, m, byte) ==
    IF RegisterOf(byte % 8) = "[HL]"
    THEN Memory_read(m, Cpu_read_register_wide(c, "HL"))
    ELSE c[Field(RegisterOf(byte % 8))]

\* C28: a step that executes RES b on an operand leaves bit b of the operand
\* 0, its other seven bits as they were and F as it was.
C28_ResClearsBit ==
    [][\A byte \in ResOpcodes :
          (op'.name \in {"cpu_step", "cpu_panic"} /\ cpu.prefixed /\ op'.byte = byte)
          => /\ op'.name = "cpu_step"
             /\ \A k \in 0 .. 7 :
                   BitOf(OperandValue(cpu', memory', byte), k)
                      = IF k = (byte - \h80) \div 8 THEN 0
                        ELSE BitOf(OperandValue(cpu, memory, byte), k)
             /\ cpu'.f = cpu.f]_vars

(***************************************************************************)
(* SpecCond: one Cpu::step over a conditional JR, JP, CALL or RET          *)
(***************************************************************************)
ConditionalOpcodes ==
    {\h20, \h28, \h30, \h38, \hC0, \hC8, \hD0, \hD8,
     \hC2, \hCA, \hD2, \hDA, \hC4, \hCC, \hD4, \hDC}

CondInit ==
    /\ ppu = Ppu_init
    /\ overflow_checks \in BOOLEAN
    /\ panicked = FALSE
    /\ op = [name |-> "init"]
    /\ hist = [HistInit EXCEPT !.cpu_steps = MaxCpuSteps - 1]
    /\ \E opcode \in ConditionalOpcodes, f \in FlagBytes,
          n \in {\h05, \hFB}, m \in {\hC1, \h20}, sp \in {StackBase, \hFF90} :
          /\ memory = [Memory_init EXCEPT
                         !.ram = ProgramRam(<<opcode, n, m>>, 0, 0)]
          /\ cpu = RegisterFile(
                       [Cpu_init EXCEPT !.pc = ProgramBase, !.sp = sp, !.f = f,
                                        !.ime = FALSE],
                       \h3A)

CondNext == ObservedCpuStepAct

SpecCond == CondInit /\ [][CondNext]_vars

\* The context an executor of an instruction of `size` bytes starts in.
Advanced(size) == Ctx([cpu EXCEPT !.pc = W16(cpu.pc + size)], memory, FALSE)

\* The effect of the unconditional form of a conditional opcode.
Unconditional(byte) ==
    CASE byte \in {\h20, \h28, \h30, \h38} -> jump_relative(Advanced(2))
      [] byte \in {\hC0, \hC8, \hD0, \hD8} -> pop(Advanced(1), "PC")
      [] byte \in {\hC2, \hCA, \hD2, \hDA} -> jump(Advanced(3))
      [] byte \in {\hC4, \hCC, \hD4, \hDC} -> call_a16(Advanced(3))

\* Whether the flags in F satisfy the condition of a conditional opcode: Z is
\* bit 7 and C is bit 4.
ConditionTrue(byte) ==
    <<(cpu.f \div 128) % 2 = 0, (cpu.f \div 128) % 2 = 1,
      (cpu.f \div 16) % 2 = 0, (cpu.f \div 16) % 2 = 1>>[((byte \div 8) % 4) + 1]

\* The effect of a conditional opcode whose condition is false.
FallThrough(byte) ==
    CASE byte \in {\h20, \h28, \h30, \h38} -> Advanced(2)
      [] byte \in {\hC0, \hC8, \hD0, \hD8} -> Advanced(1)
      [] byte \in {\hC2, \hCA, \hD2, \hDA, \hC4, \hCC, \hD4, \hDC} -> Advanced(3)

\* C29: a step that executes a conditional JR, JP, CALL or RET whose
\* condition is false changes only PC, by the size of the instruction; one
\* whose condition is true leaves the registers, flags, SP, PC and memory as
\* JR, JP, CALL or RET would.
C29_ConditionalControlFlow ==
    [][\A byte \in ConditionalOpcodes :
          (op'.name \in {"cpu_step", "cpu_panic"} /\ op'.byte = byte)
          => /\ op'.name = "cpu_step"
             /\ cpu' = (IF ConditionTrue(byte)
                        THEN Unconditional(byte) ELSE FallThrough(byte)).cpu
             /\ memory' = (IF ConditionTrue(byte)
                           THEN Unconditional(byte) ELSE FallThrough(byte)).memory]_vars

\* C29 witness: CALL NZ has run with Z clear and C set: PC is the operand,
\* the return address 0x1003 is on the stack and SP is two lower.
C29_Witness ==
    /\ op.name = "cpu_step" /\ op.byte = \hC4
    /\ Len(hist.trace) = 1
    /\ hist.trace[1].before.f = \h10
    /\ hist.trace[1].before.sp = StackBase
    /\ cpu.pc = \hC105
    /\ cpu.sp = StackBase - 2
    /\ Memory_read(memory, StackBase - 1) = \h10
    /\ Memory_read(memory, StackBase - 2) = \h03
    /\ cpu.f = \h10


(***************************************************************************)
(* SpecDma: the composite loop of Jameboy::step running a boot program     *)
(* that counts B down to zero and then starts an OAM DMA transfer from     *)
(* page 0xC0, so that the transfer begins at a chosen machine step.        *)
(***************************************************************************)
\* Jameboy::step calls in one run.
DmaRunSteps == 300

\* Values the boot program loads into B: the transfer starts at machine step
\* 2 * n + 3.
DelayCounts == {1, 20, 56, 60, 65, 100}

\* LD B,n; DEC B; JR NZ,-3; LD A,0xC0; LDH [0x46],A; JR -2
DmaDelayProgram(n) ==
    LET code == <<\h06, n, \h05, \h20, \hFD, \h3E, \hC0, \hE0, \h46, \h18, \hFE>>
    IN  [a \in 0 .. Len(code) - 1 |-> code[a + 1]]

DmaMachineInit ==
    /\ \E n \in DelayCounts :
           memory = [Memory_init EXCEPT !.bootstrap_rom = DmaDelayProgram(n)]
    /\ cpu = Cpu_init
    /\ ppu = Ppu_init
    /\ overflow_checks \in BOOLEAN
    /\ panicked = FALSE
    /\ op = [name |-> "init"]
    /\ hist = [HistInit EXCEPT !.machine_steps = MaxMachineSteps - DmaRunSteps]

DmaMachineNext == JameboyStepAct

SpecDma == DmaMachineInit /\ [][DmaMachineNext]_vars

\* C30: a PPU mode change that falls inside an active OAM DMA transfer is not
\* lost, so the PPU leaves OAM scan: while the mode is OAM scan the dot
\* counter of the line is below the 80 dots of the scan, and no machine step
\* panics.
C30_PpuLeavesOamScan ==
    /\ ~panicked
    /\ read_ppu_mode(memory) = "OamScan" => ppu.dot < DOTS_PER_OAM_SCAN


(***************************************************************************)
(* Claims on the pixel pipeline of the Drawing mode                        *)
(***************************************************************************)
\* C31: during Drawing the background fetcher advances at most one pipeline
\* state every two dots, so the first 8 background pixels of a line are pushed
\* no earlier than 8 dots after Drawing begins: while the dot counter of the
\* line is below 80 + 8 the background FIFO is empty and no pixel of the line
\* has been taken from it.
C31_FetcherPace ==
    (read_ppu_mode(memory) = "Drawing" /\ ppu.dot < DOTS_PER_OAM_SCAN + 8) =>
        /\ ppu.background_fetcher.fifo = <<>>
        /\ ppu.x_position = 0
        /\ ppu.image_buffer = None


(***************************************************************************)
(* SpecDraw: the PPU stepping on its own from Ppu::init through line 0,    *)
(* line 1 and the start of line 2, over a memory in which set-up code has  *)
(* left sprites for line 1, row 1 of the sprite tile and of the background *)
(* tile, and a horizontal scroll.                                          *)
(***************************************************************************)
\* Ppu::step calls in one run: two lines of 456 dots and the first dots of
\* the third.
MaxDrawDots == 1100

\* OAM layouts: the (y, x) positions of the sprites, in OAM order.  The last
\* layout holds sprites above, on and below lines 1 and 2, sprites at x 0,
\* and more than ten sprites on line 1.
SpriteLayouts ==
    {<<>>, <<<<17, 8>>>>, <<<<17, 20>>>>, [i \in 1 .. 3 |-> <<17, 4>>],
     <<<<17, 60>>, <<17, 20>>, <<17, 100>>, <<17, 20>>>>,
     [i \in 1 .. 10 |-> <<17, 20>>],
     <<<<9, 30>>, <<10, 50>>, <<17, 0>>, <<18, 40>>, <<17, 70>>, <<16, 70>>,
       <<12, 10>>, <<255, 20>>, <<17, 90>>, <<17, 80>>, <<11, 110>>,
       <<17, 100>>, <<17, 130>>, <<17, 120>>, <<13, 150>>, <<17, 140>>,
       <<0, 60>>, <<25, 16>>>>,
     [i \in 1 .. 10 |-> <<17, 8 + i>>], [i \in 1 .. 10 |-> <<17, 17>>],
     <<<<17, 1>>, <<17, 1>>, <<17, 9>>, <<17, 9>>, <<17, 12>>, <<17, 167>>,
       <<17, 168>>, <<17, 255>>>>}

\* The attribute byte of every sprite: priority Object or Background.
SpriteAttributes == {\h00, \h80}

\* Row 1 of background tile 0 (first byte, second byte): the colours
\* 0 0 1 1 2 2 3 3 and 3 3 2 2 1 1 0 0.
BackgroundRows == {<<\h33, \h0F>>, <<\hCC, \hF0>>}

\* Row 1 of sprite tile 1: the colours 0 1 2 3 0 1 2 3.
SpriteRow == <<\h55, \h33>>

ScrollValues == {0, 3, 7}

\* Sprites (y, x, tile 1, attributes) from 0xFE00 on, the sprite row at
\* 0x8012, the background row at 0x8802 and SCX.
DrawRam(layout, attributes, row, scx) ==
    LET image == [a \in (\hFE00 .. \hFE00 + 4 * Len(layout) - 1)
                        \cup {\h8012, \h8013, \h8802, \h8803, ADDRESS_SCX}
                  |-> CASE a \in \hFE00 .. \hFE9F ->
                              <<layout[((a - \hFE00) \div 4) + 1][1],
                                layout[((a - \hFE00) \div 4) + 1][2], 1,
                                attributes>>[(a % 4) + 1]
                        [] a \in {\h8012, \h8013} -> SpriteRow[a - \h8012 + 1]
                        [] a \in {\h8802, \h8803} -> row[a - \h8802 + 1]
                        [] a = ADDRESS_SCX -> scx]
    IN  [a \in {x \in DOMAIN image : image[x] # 0} |-> image[a]]

DrawInit ==
    /\ \E layout \in SpriteLayouts, attributes \in SpriteAttributes,
          row \in BackgroundRows, scx \in ScrollValues :
          memory = [Memory_init EXCEPT
                      !.ram = DrawRam(layout, attributes, row, scx)]
    /\ cpu = Cpu_init
    /\ ppu = Ppu_init
    /\ overflow_checks \in BOOLEAN
    /\ panicked = FALSE
    /\ op = [name |-> "init"]
    /\ hist = HistInit

DrawStepAct ==
    /\ hist.dots < MaxDrawDots
    /\ PpuStepAct

DrawNext == DrawStepAct

SpecDraw == DrawInit /\ [][DrawNext]_vars

\* The colour the mixing rule gives for a background pixel and the sprite
\* FIFO it meets.
MixedColour(background_pixel, sprite_fifo) ==
    IF sprite_fifo = <<>> THEN background_pixel.colour
    ELSE IF Head(sprite_fifo).colour = 0 THEN background_pixel.colour
    ELSE IF Head(sprite_fifo).priority = "Background" /\ background_pixel.colour # 0
    THEN background_pixel.colour
    ELSE Head(sprite_fifo).colour

\* The pixel of the framebuffer a step wrote, or None.
Written == IF ppu' = ppu \/ ppu'.image_buffer = ppu.image_buffer THEN None
           ELSE ppu'.image_buffer

\* A Drawing step that neither starts nor finishes a sprite fetch and has no
\* scroll pixels left to discard.
PlainDrawingStep ==
    /\ op'.name = "ppu_step"
    /\ op'.mode = "Drawing"
    /\ ppu.sprite_fetcher.fetch_step.tag = "Paused"
    /\ ppu'.sprite_fetcher.fetch_step.tag = "Paused"
    /\ ppu.discard_count = 0

\* C32: a Drawing step that takes a pixel from a non-empty background FIFO
\* writes at (current_x, LY) the background pixel if the sprite FIFO is empty
\* or the sprite colour is 0, else the background pixel if the sprite's
\* priority is Background and the background colour is not 0, else the
\* sprite pixel; a step that finds the background FIFO empty with no row ready
\* to push writes nothing and leaves current_x alone.
C32_PixelMix ==
    [][/\ (PlainDrawingStep /\ ppu.background_fetcher.fifo # <<>>) =>
              Written = Some([x |-> ppu.x_position, y |-> LY,
                              luma |-> PixelColour_to_grayscale(
                                  MixedColour(Head(ppu.background_fetcher.fifo),
                                              ppu.sprite_fetcher.fifo))])
       /\ (/\ op'.name = "ppu_step"
           /\ op'.mode = "Drawing"
           /\ ppu.background_fetcher.fifo = <<>>
           /\ ppu.background_fetcher.fetch_step.tag # "Push") =>
              /\ Written = None
              /\ ppu'.x_position = ppu.x_position]_vars


\* C32 witness: a sprite of priority Background at x 20 over the background
\* row 0 0 1 1 2 2 3 3: at x 13 its LightGray pixel met a DarkGray background
\* pixel and the background pixel was written.
C32_Witness ==
    /\ op.name = "ppu_step"
    /\ Memory_read(memory, \hFE03) = \h80
    /\ Memory_read(memory, \hFE01) = 20
    /\ Memory_read(memory, \h8802) = \h33
    /\ Memory_read(memory, ADDRESS_SCX) = 0
    /\ ppu.image_buffer = Some([x |-> 13, y |-> 1, luma |-> 169])
    /\ Len(ppu.sprite_fetcher.fifo) = 6
    /\ Head(ppu.sprite_fetcher.fifo).colour = 2
    /\ Head(ppu.sprite_fetcher.fifo).priority = "Background"


\* C33: the step that starts Drawing sets discard_count to SCX mod 8; a
\* Drawing step that lowers discard_count lowers it by one, takes one pixel
\* from the background FIFO, writes nothing and leaves current_x alone; a
\* step writes a pixel only when discard_count is 0, at x = current_x, and
\* then advances current_x by one, so the writes of a line are at x = 0, 1,
\* .. in turn; the step that ends Drawing writes at x = 159.
C33_ScrollDiscard ==
    [][op'.name = "ppu_step" =>
         /\ (op'.mode = "OamScan" /\ read_ppu_mode(memory') = "Drawing") =>
                /\ ppu'.discard_count = Memory_read(memory, ADDRESS_SCX) % 8
                /\ ppu'.x_position = 0
                /\ ppu'.background_fetcher.fifo = <<>>
         /\ (op'.mode = "Drawing" /\ ppu'.discard_count # ppu.discard_count) =>
                /\ ppu'.discard_count = ppu.discard_count - 1
                /\ Len(ppu'.background_fetcher.fifo)
                       = IF ppu.background_fetcher.fifo = <<>> THEN 7
                         ELSE Len(ppu.background_fetcher.fifo) - 1
                /\ Written = None
                /\ ppu'.x_position = ppu.x_position
         /\ Written # None =>
                /\ op'.mode = "Drawing"
                /\ ppu.discard_count = 0
                /\ Written[1].x = ppu.x_position
                /\ Written[1].y = LY
                /\ ppu'.x_position = (ppu.x_position + 1) % PIXELS_PER_SCANLINE
         /\ (op'.mode = "Drawing" /\ read_ppu_mode(memory') # "Drawing") =>
                /\ read_ppu_mode(memory') = "HorizontalBlank"
                /\ Written # None
                /\ Written[1].x = PIXELS_PER_SCANLINE - 1
                /\ ppu'.x_position = 0]_vars

\* C33 witness: with SCX = 7, seven pixels of the first tile row of line 1
\* were discarded and its eighth pixel was written at x = 0.
C33_Witness ==
    /\ op.name = "ppu_step"
    /\ Memory_read(memory, ADDRESS_SCX) = 7
    /\ LY = 1
    /\ read_ppu_mode(memory) = "Drawing"
    /\ ppu.discard_count = 0
    /\ ppu.x_position = 1
    /\ ppu.background_fetcher.fifo = <<>>
    /\ ppu.image_buffer # None
    /\ ppu.image_buffer[1].x = 0
    /\ ppu.image_buffer[1].y = 1


\* OAM entry i (0 .. 39) as the four bytes at 0xFE00 + 4 * i.
OamEntry(i) ==
    [y |-> Memory_read(memory, \hFE00 + 4 * i),
     x |-> Memory_read(memory, \hFE00 + 4 * i + 1),
     tile |-> Memory_read(memory, \hFE00 + 4 * i + 2),
     attributes |-> Memory_read(memory, \hFE00 + 4 * i + 3)]

\* The height of a sprite: Ppu::step passes SpriteHeight::Normal.
SpriteHeightNormal == 8

OnLine(i) ==
    /\ OamEntry(i).x > 0
    /\ OamEntry(i).y <= LY + 16
    /\ LY + 16 < OamEntry(i).y + SpriteHeightNormal

\* The entries on the line that precede entry i.
Rank(i) == Cardinality({j \in 0 .. i - 1 : OnLine(j)})

\* The entries among the first n that the scan admits.
Admitted(n) == {i \in 0 .. n - 1 : OnLine(i) /\ Rank(i) < 10}

SameSprite(sprite, i) ==
    /\ sprite.y_position = OamEntry(i).y
    /\ sprite.x_position = OamEntry(i).x
    /\ sprite.tile_number = OamEntry(i).tile
    /\ sprite.flags = SpriteFlags_from(OamEntry(i).attributes)

\* C34: after a step of OAM scan that leaves the dot counter at k <= 80, the
\* entries 0 .. (k + 1) / 2 - 1 have been inspected in order: the buffer holds
\* exactly the inspected entries with x_position > 0 and
\* y_position <= LY + 16 < y_position + 8 that were preceded by fewer than
\* ten such entries.  Before dot 80 they are in OAM order; at dot 80 the
\* mode is Drawing and they are ordered by x_position, largest first, so the
\* sprite taken next (the last) has the smallest x_position.
C34_OamScan ==
    (op.name = "ppu_step" /\ op.mode = "OamScan" /\ ppu.dot <= DOTS_PER_OAM_SCAN) =>
        /\ Len(ppu.sprite_buffer) = Cardinality(Admitted((ppu.dot + 1) \div 2))
        /\ ppu.dot < DOTS_PER_OAM_SCAN =>
              /\ read_ppu_mode(memory) = "OamScan"
              /\ \A i \in Admitted((ppu.dot + 1) \div 2) :
                    SameSprite(ppu.sprite_buffer[Rank(i) + 1], i)
        /\ ppu.dot = DOTS_PER_OAM_SCAN =>
              /\ read_ppu_mode(memory) = "Drawing"
              /\ \A i \in Admitted(40) :
                    Cardinality({k \in 1 .. Len(ppu.sprite_buffer) :
                                    SameSprite(ppu.sprite_buffer[k], i)})
                    = Cardinality({j \in Admitted(40) : OamEntry(j) = OamEntry(i)})
              /\ \A k \in 1 .. Len(ppu.sprite_buffer) - 1 :
                    ppu.sprite_buffer[k].x_position
                        >= ppu.sprite_buffer[k + 1].x_position

\* C34 witness: line 1 of the mixed layout at dot 80: the buffer holds ten
\* sprites, the last one the sprite at x 10, and neither the sprite at x 0
\* nor the eleventh and twelfth sprites on the line (x 150 and 140).
C34_Witness ==
    /\ op.name = "ppu_step"
    /\ op.mode = "OamScan"
    /\ read_ppu_mode(memory) = "Drawing"
    /\ ppu.dot = DOTS_PER_OAM_SCAN
    /\ LY = 1
    /\ OamEntry(14) = [y |-> 13, x |-> 150, tile |-> 1, attributes |-> \h80]
    /\ Len(ppu.sprite_buffer) = 10
    /\ ppu.sprite_buffer[10].x_position = 10
    /\ ppu.sprite_buffer[1].x_position = 130
    /\ \A k \in 1 .. 10 : ppu.sprite_buffer[k].x_position \notin {0, 140, 150}


(***************************************************************************)
(* SpecTileMap: the PPU stepping on its own from Ppu::init through line 0  *)
(* and the Drawing of line 1, over a memory in which set-up code has left  *)
(* LCDC, the scroll and window registers and two tile maps whose cells     *)
(* hold distinct tile numbers.                                             *)
(***************************************************************************)
\* Ppu::step calls in one run: line 0, the OAM scan of line 1 and its
\* Drawing.
MaxTileMapDots == 750

\* Rows 0 and 31 of the maps at 0x9800 and 0x9C00, each with the 28 cells
\* that follow it.
MapCells == (\h9800 .. \h983B) \cup (\h9BE0 .. \h9C3B) \cup (\h9FE0 .. \hA01B)

\* The tile number in a map cell: 1 for the lowest cell, 2 for the next, ..
CellValue(a) == Cardinality({c \in MapCells : c <= a})

\* LCDC: nothing set; background map at 0x9C00; window enabled with its map
\* at 0x9C00; window enabled with the background map at 0x9C00.
LcdcValues == {\h00, \h08, \h60, \h28}

ScxValues == {0, 8, 13}

ScyValues == {0, 247}

\* (WX, WY): a window over the whole line, one from x = 40 of line 1 on, and
\* one that starts below the line.
WindowOrigins == {<<7, 0>>, <<47, 1>>, <<7, 100>>}

TileMapRam(lcdc, scx, scy, origin) ==
    LET image == [a \in MapCells \cup {ADDRESS_LCDC_REGISTER, ADDRESS_SCX,
                                       ADDRESS_SCY, ADDRESS_WX, ADDRESS_WY}
                  |-> CASE a \in MapCells -> CellValue(a)
                        [] a = ADDRESS_LCDC_REGISTER -> lcdc
                        [] a = ADDRESS_SCX -> scx
                        [] a = ADDRESS_SCY -> scy
                        [] a = ADDRESS_WX -> origin[1]
                        [] a = ADDRESS_WY -> origin[2]]
    IN  [a \in {x \in DOMAIN image : image[x] # 0} |-> image[a]]

TileMapInit ==
    /\ \E lcdc \in LcdcValues, scx \in ScxValues, scy \in ScyValues,
          origin \in WindowOrigins :
          memory = [Memory_init EXCEPT
                      !.ram = TileMapRam(lcdc, scx, scy, origin)]
    /\ cpu = Cpu_init
    /\ ppu = Ppu_init
    /\ overflow_checks \in BOOLEAN
    /\ panicked = FALSE
    /\ op = [name |-> "init"]
    /\ hist = HistInit

TileMapStepAct ==
    /\ hist.dots < MaxTileMapDots
    /\ PpuStepAct

TileMapNext == TileMapStepAct

SpecTileMap == TileMapInit /\ [][TileMapNext]_vars

\* A Drawing step in which the background fetcher reads a tile number.
FetchesTileNumber ==
    /\ op'.name = "ppu_step"
    /\ op'.mode = "Drawing"
    /\ ppu.background_fetcher.fetch_step.tag = "FetchTileNumber"
    /\ ppu'.background_fetcher.fetch_step.tag = "FetchTileLow"

LCDC == Memory_read(memory, ADDRESS_LCDC_REGISTER)

\* The window covers the pixel at scanline_x of this line.
InWindow ==
    /\ (LCDC \div 32) % 2 = 1
    /\ ppu.x_position >= Memory_read(memory, ADDRESS_WX) - 7
    /\ LY >= Memory_read(memory, ADDRESS_WY)

WindowMapBase == IF (LCDC \div 64) % 2 = 1 THEN \h9C00 ELSE \h9800

BackgroundMapBase == IF (LCDC \div 8) % 2 = 1 THEN \h9C00 ELSE \h9800

\* The cell a tile number was read from.
CellOf(tile_number) == CHOOSE a \in MapCells : CellValue(a) = tile_number

FetchedTileNumber == ppu'.background_fetcher.fetch_step.tile_number

\* C35: in FetchTileNumber the background fetcher reads the tile number from
\* the window tile map (base by LCDC bit 6) when LCDC bit 5 is set and
\* scanline_x >= WX - 7 and LY >= WY, and from the background tile map (base
\* by LCDC bit 3) otherwise.
C35_WindowMapSelection ==
    [][FetchesTileNumber =>
         /\ FetchedTileNumber # 0
         /\ IF InWindow
            THEN CellOf(FetchedTileNumber) \in WindowMapBase .. WindowMapBase + \h3FF
            ELSE CellOf(FetchedTileNumber)
                     \in BackgroundMapBase .. BackgroundMapBase + \h3FF]_vars


\* The address the background fetcher is to read a background tile number
\* from.
BackgroundTileNumberAddress ==
    BackgroundMapBase
    + (((LY + Memory_read(memory, ADDRESS_SCY)) % 256) \div 8) * 32
    + ((ppu.background_fetcher.x_position
        + Memory_read(memory, ADDRESS_SCX) \div 8) % 32)

\* C36: for a background tile the fetcher reads the tile number at
\* map_base + (((LY + SCY) & 0xFF) / 8) * 32 + ((fetcher_x + SCX / 8) & 0x1F),
\* a cell of the 32 x 32 tile map that starts at map_base.
C36_BackgroundTileAddress ==
    [][(FetchesTileNumber /\ ~InWindow) =>
         /\ BackgroundTileNumberAddress
                \in BackgroundMapBase .. BackgroundMapBase + \h3FF
         /\ FetchedTileNumber = CellValue(BackgroundTileNumberAddress)]_vars


(***************************************************************************)
(* Claims on the LCD status register, under SpecPpu                        *)
(***************************************************************************)
STAT == Memory_read(memory, ADDRESS_LCD_STATUS_REGISTER)

\* C37: after a PPU dot step that leaves LY as it was, bit 2 of STAT is 1 if
\* LY equals LYC and 0 otherwise, and bits 0-1 of STAT are the number of the
\* mode (0 HBlank, 1 VBlank, 2 OAM scan, 3 Drawing).
C37_StatCoincidence ==
    [][(op'.name = "ppu_step" /\ LY' = LY) =>
         /\ (STAT' \div 4) % 2 = IF LY' = Memory_read(memory', ADDRESS_LYC)
                                 THEN 1 ELSE 0
         /\ STAT' % 4 = CASE read_ppu_mode(memory') = "HorizontalBlank" -> 0
                          [] read_ppu_mode(memory') = "VerticalBlank" -> 1
                          [] read_ppu_mode(memory') = "OamScan" -> 2
                          [] read_ppu_mode(memory') = "Drawing" -> 3]_vars


(***************************************************************************)
(* SpecLcdStore: the composite loop of Jameboy::step running a boot        *)
(* program that stores a line number into LY and a mode into STAT and then *)
(* spins.                                                                  *)
(***************************************************************************)
\* Jameboy::step calls in one run.
LcdRunSteps == 300

\* The line numbers and modes the boot program stores.
StoredLines == {0, 10, 143, 144, 200}

StoredModes == {0, 3}

\* LD A,ly; LDH [0x44],A; LD A,stat; LDH [0x41],A; JR -2
LcdStoreProgram(ly, stat) ==
    LET code == <<\h3E, ly, \hE0, \h44, \h3E, stat, \hE0, \h41, \h18, \hFE>>
    IN  [a \in 0 .. Len(code) - 1 |-> code[a + 1]]

LcdStoreInit ==
    /\ \E ly \in StoredLines, stat \in StoredModes :
           memory = [Memory_init EXCEPT
                       !.bootstrap_rom = LcdStoreProgram(ly, stat)]
    /\ cpu = Cpu_init
    /\ ppu = Ppu_init
    /\ overflow_checks \in BOOLEAN
    /\ panicked = FALSE
    /\ op = [name |-> "init"]
    /\ hist = [HistInit EXCEPT !.machine_steps = MaxMachineSteps - LcdRunSteps]

LcdStoreNext == JameboyStepAct

SpecLcdStore == LcdStoreInit /\ [][LcdStoreNext]_vars

\* C38: every framebuffer write is inside the 160 x 144 image: no machine
\* step panics on a write outside it, the pixel last written has x < 160
\* and y < 144, and current_x never exceeds 160.
C38_FramebufferBounds ==
    /\ ~panicked
    /\ ppu.x_position <= PIXELS_PER_SCANLINE
    /\ ppu.image_buffer # None =>
          /\ ppu.image_buffer[1].x < PIXELS_PER_SCANLINE
          /\ ppu.image_buffer[1].y < 144


\* C39: when the sprite fetcher is at Push, the sprite it has loaded has
\* x_position >= current_x and at most current_x + 8, so the pixel count
\* sprite.x_position - current_x the step computes lies in 0 .. 8.
C39_SpritePixelCount ==
    (ppu.sprite_fetcher.fetch_step.tag = "Push"
     /\ read_ppu_mode(memory) = "Drawing") =>
        /\ ppu.sprite_fetcher.sprite # None
        /\ ppu.sprite_fetcher.sprite[1].x_position - ppu.x_position \in 0 .. 8

\* C39 witness: ten sprites share x 17; the first was loaded at current_x 9
\* with seven pixels in the background FIFO, each later Push step emitted one
\* of them, and the ninth sprite reaches Push with current_x at 16 and the
\* background FIFO empty.
C39_Witness ==
    /\ op.name = "ppu_step"
    /\ read_ppu_mode(memory) = "Drawing"
    /\ ppu.sprite_fetcher.fetch_step.tag = "Push"
    /\ ppu.sprite_fetcher.sprite # None
    /\ ppu.sprite_fetcher.sprite[1].x_position = 17
    /\ ppu.x_position = 16
    /\ ppu.background_fetcher.fifo = <<>>
    /\ Len(ppu.sprite_buffer) = 1

====
